---- MODULE Spec2Model ----
(***************************************************************************)
(* Model of scripts/02-standardize-yaml.py, the frontmatter normalizer of  *)
(* the markdown import pipeline.                                           *)
(*                                                                         *)
(* Text is modelled character by character: a Python str without newline   *)
(* is a sequence of one-character strings, and a multi-line str is the     *)
(* non-empty sequence of its lines (s.split('\n'); '\n'.join is its        *)
(* inverse, and the empty str is the single empty line).                   *)
(***************************************************************************)
EXTENDS Integers, Sequences, FiniteSets, TLC

VARIABLES
    staging,        \* processed-staging/: post directory name -> text of its index.qmd
    posts,          \* names of the directories of posts/ (empty when posts/ is absent)
    todo,           \* sorted(post_dirs) still to be processed by main's loop
    success_count,  \* main: success_count
    failed_posts,   \* main: failed_posts
    report,         \* per post directory: what process_post_directory computed in this run
    original,       \* the text every file had when this run started
    pc,             \* "loop" while main iterates, "exit" after the summary, "idle"
                    \* before the orchestrator has started the script
    exit_code,      \* status main ends with (0 or 1)
    run,            \* how many times the script has been started
    now,            \* datetime.now() as YYYY-MM-DD during this run
    previous,       \* report of the run before this one
    orchestrator    \* 00-process-markdown-import.py: where its main is, its arguments,
                    \* the scripts it started, their exit statuses, its own status

vars == <<staging, posts, todo, success_count, failed_posts, report, original, pc,
          exit_code, run, now, previous, orchestrator>>

----------------------------------------------------------------------------
(* Python str helpers                                                       *)

TAB == "\t"

\* the characters str.strip() removes that can occur inside one line
WhiteSpace == {" ", "\t", "\r", "\f"}

IsSpace(c) == c \in WhiteSpace

SetMin(S) == CHOOSE x \in S : \A y \in S : x <= y

SetMax(S) == CHOOSE x \in S : \A y \in S : x >= y

Drop(s, n) == SubSeq(s, n + 1, Len(s))

Rep(c, n) == [i \in 1..n |-> c]

StartsWith(s, p) == Len(p) <= Len(s) /\ SubSeq(s, 1, Len(p)) = p

EndsWith(s, p) == Len(p) <= Len(s) /\ SubSeq(s, Len(s) - Len(p) + 1, Len(s)) = p

Contains(s, c) == \E i \in 1..Len(s) : s[i] = c

\* sub in s
Occurs(sub, s) == \E i \in 1..(Len(s) - Len(sub) + 1) : SubSeq(s, i, i + Len(sub) - 1) = sub

\* s.lstrip()
LStrip(s) ==
    LET keep == {i \in 1..Len(s) : ~IsSpace(s[i])}
    IN  IF keep = {} THEN <<>> ELSE SubSeq(s, SetMin(keep), Len(s))

\* s.rstrip()
RStrip(s) ==
    LET keep == {i \in 1..Len(s) : ~IsSpace(s[i])}
    IN  IF keep = {} THEN <<>> ELSE SubSeq(s, 1, SetMax(keep))

\* s.strip()
Strip(s) == LStrip(RStrip(s))

\* s.strip(c) for a single character c
StripChar(s, c) ==
    LET keep == {i \in 1..Len(s) : s[i] # c}
    IN  IF keep = {} THEN <<>> ELSE SubSeq(s, SetMin(keep), SetMax(keep))

\* s.lstrip(c) for a single character c
LStripChar(s, c) ==
    LET keep == {i \in 1..Len(s) : s[i] # c}
    IN  IF keep = {} THEN <<>> ELSE SubSeq(s, SetMin(keep), Len(s))

\* number of leading occurrences of c in s
LeadingCount(s, c) == Len(s) - Len(LStripChar(s, c))

\* a line that str.strip() of the whole text would swallow
IsBlank(line) == \A i \in 1..Len(line) : IsSpace(line[i])

\* text.strip() of a multi-line text given as its lines
StripText(lines) ==
    LET keep == {i \in 1..Len(lines) : ~IsBlank(lines[i])}
    IN  IF keep = {} THEN << <<>> >>
        ELSE LET lo == SetMin(keep)
                 hi == SetMax(keep)
             IN  [i \in 1..(hi - lo + 1) |->
                    LET l == lines[lo + i - 1]
                        l1 == IF i = 1 THEN LStrip(l) ELSE l
                    IN  IF i = hi - lo + 1 THEN RStrip(l1) ELSE l1]

\* lines[:i-1] + lines[i:]  (1-based i)
RemoveAt(lines, i) == SubSeq(lines, 1, i - 1) \o SubSeq(lines, i + 1, Len(lines))

----------------------------------------------------------------------------
(* fix_duplicate_headings                                                   *)

\* the loop body of fix_duplicate_headings for one line
FixHeadingLine(line) ==
    LET stripped == Strip(line)
        hash_count == LeadingCount(stripped, "#")
        remaining == Strip(Drop(stripped, hash_count))
        text_part == Strip(Drop(remaining, hash_count))
        indent == Len(line) - Len(LStrip(line))
    IN  IF /\ StartsWith(stripped, <<"#">>)
           /\ StartsWith(remaining, Rep("#", hash_count))
           /\ text_part # <<>>
        THEN Rep(" ", indent) \o Rep("#", hash_count) \o <<" ">> \o text_part
        ELSE line

\* fix_duplicate_headings(content)[0]
fix_duplicate_headings(content) == [i \in 1..Len(content) |-> FixHeadingLine(content[i])]

----------------------------------------------------------------------------
(* extract_title_from_content                                               *)

\* the test of the loop of extract_title_from_content on one line
IsTitleLine(line) ==
    LET l == Strip(line)
    IN  /\ StartsWith(l, <<"#", " ">>) \/ StartsWith(l, <<"#", "#", " ">>)
        /\ Strip(LStripChar(l, "#")) # <<>>

TitleOfLine(line) == Strip(LStripChar(Strip(line), "#"))

\* extract_title_from_content taking the last heading instead of the first
extract_last_title(content) ==
    LET hits == {i \in 1..Len(content) : IsTitleLine(content[i])}
    IN  IF hits = {}
        THEN [found |-> FALSE, title |-> <<>>, content |-> content]
        ELSE [found |-> TRUE,
              title |-> TitleOfLine(content[SetMax(hits)]),
              content |-> StripText(RemoveAt(content, SetMax(hits)))]

\* extract_title_from_content(content): found = FALSE stands for title None
extract_title_from_content(content) ==
    LET hits == {i \in 1..Len(content) : IsTitleLine(content[i])}
    IN  IF hits = {}
        THEN [found |-> FALSE, title |-> <<>>, content |-> content]
        ELSE LET i == SetMin(hits)
             IN  [found |-> TRUE,
                  title |-> TitleOfLine(content[i]),
                  content |-> StripText(RemoveAt(content, i))]

----------------------------------------------------------------------------
(* sanitize_filename                                                        *)

UPPER == <<"A", "B", "C", "D", "E", "F", "G", "H", "I", "J", "K", "L", "M",
           "N", "O", "P", "Q", "R", "S", "T", "U", "V", "W", "X", "Y", "Z">>

LOWER == <<"a", "b", "c", "d", "e", "f", "g", "h", "i", "j", "k", "l", "m",
           "n", "o", "p", "q", "r", "s", "t", "u", "v", "w", "x", "y", "z">>

DIGITS == <<"0", "1", "2", "3", "4", "5", "6", "7", "8", "9">>

IsDigit(c) == \E i \in 1..10 : DIGITS[i] = c

IsLowerAlpha(c) == \E i \in 1..26 : LOWER[i] = c

\* c.lower()
LowerChar(c) ==
    IF \E i \in 1..26 : UPPER[i] = c
    THEN LOWER[CHOOSE i \in 1..26 : UPPER[i] = c]
    ELSE c

\* s.lower()
Lower(s) == [i \in 1..Len(s) |-> LowerChar(s[i])]

\* the character class [<>:"|?*\\/] of sanitize_filename
InvalidChars == {"<", ">", ":", "\"", "|", "?", "*", "\\", "/"}

\* re.sub(r'[<>:"|?*\\/]', '', s)
RECURSIVE RemoveInvalid(_)
RemoveInvalid(s) ==
    IF s = <<>> THEN <<>>
    ELSE IF Head(s) \in InvalidChars THEN RemoveInvalid(Tail(s))
    ELSE <<Head(s)>> \o RemoveInvalid(Tail(s))

\* re.sub(r'-+', '-', s)
RECURSIVE CollapseDashes(_)
CollapseDashes(s) ==
    IF Len(s) < 2 THEN s
    ELSE IF s[1] = "-" /\ s[2] = "-" THEN CollapseDashes(Tail(s))
    ELSE <<Head(s)>> \o CollapseDashes(Tail(s))

UNTITLED == <<"u", "n", "t", "i", "t", "l", "e", "d">>

sanitize_filename(text) ==
    LET lowered == Lower(text)
        dashed == [i \in 1..Len(lowered) |-> IF lowered[i] = " " THEN "-" ELSE lowered[i]]
        cleaned == StripChar(CollapseDashes(RemoveInvalid(dashed)), "-")
    IN  IF cleaned = <<>> THEN UNTITLED ELSE cleaned

----------------------------------------------------------------------------
(* check_short_path_conflict                                                *)

\* str(n) for n >= 0
RECURSIVE IntToStr(_)
IntToStr(n) ==
    IF n < 10 THEN <<DIGITS[n + 1]>>
    ELSE IntToStr(n \div 10) \o <<DIGITS[(n % 10) + 1]>>

\* f"{counter:02d}"
Fmt02(counter) == IF counter < 10 THEN <<"0">> \o IntToStr(counter) ELSE IntToStr(counter)

\* the last counter value the loop of check_short_path_conflict tries
MaxCounter == 99

\* s.split('_')[0]
BeforeUnderscore(s) ==
    LET at == {i \in 1..Len(s) : s[i] = "_"}
    IN  IF at = {} THEN s ELSE SubSeq(s, 1, SetMin(at) - 1)

\* any(d.name.endswith(f"_{sp}") for d in posts_dir.iterdir() if d.is_dir())
InUse(sp, published) == \E d \in published : EndsWith(d, <<"_">> \o sp)

\* the while loop of check_short_path_conflict from the given counter on:
\* it returns at the first counter whose new_short_path no directory ends
\* with, and raises ValueError("Too many conflicts ...") once counter > 99
ConflictLoop(short_path, counter, published) ==
    LET free == {c \in counter..MaxCounter :
                    ~InUse(short_path \o <<"-">> \o Fmt02(c), published)}
    IN  IF free # {}
        THEN [ok |-> TRUE, value |-> short_path \o <<"-">> \o Fmt02(SetMin(free))]
        ELSE [ok |-> FALSE, value |-> <<>>]

\* check_short_path_conflict(short_path, current_post_dir); now_prefix is
\* datetime.now().strftime('%Y%m%d'), published the directories of posts/
check_short_path_conflict(short_path, dir_name, now_prefix, published) ==
    LET date_prefix == IF Contains(dir_name, "_") THEN BeforeUnderscore(dir_name) ELSE now_prefix
        expected_dir == date_prefix \o <<"_">> \o short_path
    IN  IF dir_name = expected_dir
        THEN [ok |-> TRUE, value |-> short_path]
        ELSE IF InUse(short_path, published)
             THEN ConflictLoop(short_path, 1, published)
             ELSE [ok |-> TRUE, value |-> short_path]

----------------------------------------------------------------------------
(* Python values held by the frontmatter dict                               *)

\* One record shape for every value: t is the Python type ("str", "bool",
\* "int", "null" for None, "list", "date" for datetime.date); s the text of
\* a str (or the ISO text of a date), b the bool, n the int, l the items.
VStr(x) == [t |-> "str", s |-> x, b |-> FALSE, n |-> 0, l |-> <<>>]

VBool(x) == [t |-> "bool", s |-> <<>>, b |-> x, n |-> 0, l |-> <<>>]

VInt(x) == [t |-> "int", s |-> <<>>, b |-> FALSE, n |-> x, l |-> <<>>]

VNull == [t |-> "null", s |-> <<>>, b |-> FALSE, n |-> 0, l |-> <<>>]

VList(x) == [t |-> "list", s |-> <<>>, b |-> FALSE, n |-> 0, l |-> x]

VDate(x) == [t |-> "date", s |-> x, b |-> FALSE, n |-> 0, l |-> <<>>]

\* bool(v)
Truthy(v) ==
    CASE v.t = "str" -> v.s # <<>>
      [] v.t = "bool" -> v.b
      [] v.t = "int" -> v.n # 0
      [] v.t = "list" -> v.l # <<>>
      [] v.t = "date" -> TRUE
      [] OTHER -> FALSE

\* d.get(k): None when the key is absent
Get(d, k) == IF k \in DOMAIN d THEN d[k] ELSE VNull

\* d.get(k, default)
GetOr(d, k, default) == IF k \in DOMAIN d THEN d[k] ELSE default

\* a or b
Or(a, b) == IF Truthy(a) THEN a ELSE b

\* d[k] = v
Put(d, k, v) == [x \in (DOMAIN d) \cup {k} |-> IF x = k THEN v ELSE d[x]]

W_True == <<"T", "r", "u", "e">>

W_False == <<"F", "a", "l", "s", "e">>

W_None == <<"N", "o", "n", "e">>

\* str(n) for any int n
SignedToStr(n) == IF n < 0 THEN <<"-">> \o IntToStr(0 - n) ELSE IntToStr(n)

\* repr(v) of a scalar inside a list (a str is assumed free of quotes and backslashes)
PyRepr(v) ==
    CASE v.t = "str" -> <<"'">> \o v.s \o <<"'">>
      [] v.t = "bool" -> IF v.b THEN W_True ELSE W_False
      [] v.t = "int" -> SignedToStr(v.n)
      [] OTHER -> W_None

RECURSIVE JoinRepr(_)
JoinRepr(items) ==
    IF items = <<>> THEN <<>>
    ELSE IF Len(items) = 1 THEN PyRepr(items[1])
    ELSE PyRepr(items[1]) \o <<",", " ">> \o JoinRepr(Tail(items))

\* str(v)
PyStr(v) ==
    CASE v.t = "str" -> v.s
      [] v.t = "bool" -> IF v.b THEN W_True ELSE W_False
      [] v.t = "int" -> SignedToStr(v.n)
      [] v.t = "date" -> v.s
      [] v.t = "list" -> <<"[">> \o JoinRepr(v.l) \o <<"]">>
      [] OTHER -> W_None

----------------------------------------------------------------------------
(* calendar                                                                 *)

DigitVal(c) == (CHOOSE i \in 1..10 : DIGITS[i] = c) - 1

AllDigits(x) == \A i \in 1..Len(x) : IsDigit(x[i])

\* int(x) for a non-empty run of digits
RECURSIVE StrToInt(_)
StrToInt(x) ==
    IF x = <<>> THEN 0
    ELSE 10 * StrToInt(SubSeq(x, 1, Len(x) - 1)) + DigitVal(x[Len(x)])

IsLeap(y) == (y % 4 = 0 /\ y % 100 # 0) \/ y % 400 = 0

DaysIn(y, m) ==
    IF m = 2 THEN (IF IsLeap(y) THEN 29 ELSE 28)
    ELSE IF m \in {4, 6, 9, 11} THEN 30 ELSE 31

\* datetime(y, m, d) and datetime.date(y, m, d) do not raise ValueError
ValidDate(y, m, d) == y \in 1..9999 /\ m \in 1..12 /\ d >= 1 /\ d <= DaysIn(y, m)

Pad2(n) == IF n < 10 THEN <<"0">> \o IntToStr(n) ELSE IntToStr(n)

Pad4(n) == Rep("0", 4 - Len(IntToStr(n))) \o IntToStr(n)

\* date.isoformat(), which str(date) gives
IsoFormat(y, m, d) == Pad4(y) \o <<"-">> \o Pad2(m) \o <<"-">> \o Pad2(d)

----------------------------------------------------------------------------
(* yaml.safe_load (PyYAML), for the block-style subset the pipeline reads   *)
(* and writes: top-level "key: value" lines, "- item" lines (a top-level    *)
(* sequence, or the block list of the key above), plain top-level text,     *)
(* blank and comment lines.  Values are plain scalars, quoted scalars       *)
(* without escapes, and flow sequences of scalars.  Indented mappings,      *)
(* flow mappings, block scalars, anchors and tags are outside the subset    *)
(* and are never drawn as inputs.                                           *)

\* result of a parse: st is "ok", "error" (yaml.YAMLError) or "raise" (the
\* ValueError of datetime.date() in the timestamp constructor)
Res(st, v) == [st |-> st, v |-> v]

W_yes == <<"y", "e", "s">>

W_no == <<"n", "o">>

W_true == <<"t", "r", "u", "e">>

W_false == <<"f", "a", "l", "s", "e">>

W_on == <<"o", "n">>

W_off == <<"o", "f", "f">>

W_null == <<"n", "u", "l", "l">>

UpperChar(c) ==
    IF \E i \in 1..26 : LOWER[i] = c
    THEN UPPER[CHOOSE i \in 1..26 : LOWER[i] = c]
    ELSE c

Upper(x) == [i \in 1..Len(x) |-> UpperChar(x[i])]

Capitalize(x) == [i \in 1..Len(x) |-> IF i = 1 THEN UpperChar(x[i]) ELSE x[i]]

\* the three spellings the YAML 1.1 resolver accepts for a word
IsWord(x, w) == x = w \/ x = Capitalize(w) \/ x = Upper(w)

YamlTrue(x) == IsWord(x, W_yes) \/ IsWord(x, W_true) \/ IsWord(x, W_on)

YamlFalse(x) == IsWord(x, W_no) \/ IsWord(x, W_false) \/ IsWord(x, W_off)

YamlNull(x) == x = <<"~">> \/ IsWord(x, W_null)

Unsigned(x) == IF x # <<>> /\ x[1] \in {"-", "+"} THEN Tail(x) ELSE x

Signed(x, n) == IF x # <<>> /\ x[1] = "-" THEN 0 - n ELSE n

\* [-+]?(0|[1-9][0-9]*)
IsYamlDecimal(x) ==
    LET u == Unsigned(x)
    IN  u # <<>> /\ AllDigits(u) /\ (u = <<"0">> \/ u[1] # "0")

\* [-+]?0[0-7]+
IsYamlOctal(x) ==
    LET u == Unsigned(x)
    IN  Len(u) >= 2 /\ u[1] = "0" /\ \A i \in 1..Len(u) : u[i] \in {"0", "1", "2", "3", "4", "5", "6", "7"}

RECURSIVE OctToInt(_)
OctToInt(x) ==
    IF x = <<>> THEN 0
    ELSE 8 * OctToInt(SubSeq(x, 1, Len(x) - 1)) + DigitVal(x[Len(x)])

\* [0-9][0-9][0-9][0-9]-[0-9][0-9]-[0-9][0-9]
IsYamlDate(x) ==
    /\ Len(x) = 10
    /\ x[5] = "-" /\ x[8] = "-"
    /\ \A i \in {1, 2, 3, 4, 6, 7, 9, 10} : IsDigit(x[i])

\* implicit resolution and construction of a plain scalar
ResolvePlain(x) ==
    IF YamlNull(x) THEN Res("ok", VNull)
    ELSE IF YamlTrue(x) THEN Res("ok", VBool(TRUE))
    ELSE IF YamlFalse(x) THEN Res("ok", VBool(FALSE))
    ELSE IF IsYamlDecimal(x) THEN Res("ok", VInt(Signed(x, StrToInt(Unsigned(x)))))
    ELSE IF IsYamlOctal(x) THEN Res("ok", VInt(Signed(x, OctToInt(Unsigned(x)))))
    ELSE IF IsYamlDate(x)
         THEN LET y == StrToInt(SubSeq(x, 1, 4))
                  m == StrToInt(SubSeq(x, 6, 7))
                  d == StrToInt(SubSeq(x, 9, 10))
              IN  IF ValidDate(y, m, d) THEN Res("ok", VDate(x)) ELSE Res("raise", VNull)
    ELSE Res("ok", VStr(x))

\* positions where a comment starts: '#' after white space
CommentAt(x) == {i \in 2..Len(x) : x[i] = "#" /\ IsSpace(x[i - 1])}

CutComment(x) ==
    IF CommentAt(x) = {} THEN x ELSE RStrip(SubSeq(x, 1, SetMin(CommentAt(x)) - 1))

\* positions of a ':' that is a mapping-value indicator
ValueIndicatorAt(x) == {i \in 1..Len(x) : x[i] = ":" /\ (i = Len(x) \/ IsSpace(x[i + 1]))}

\* characters that cannot start a plain scalar
Indicators == {"&", "*", "!", "|", ">", "%", "@", "{", "}", "]", ","}

\* a plain scalar in block context
ParsePlain(x) ==
    LET p == CutComment(x)
    IN  IF p = <<>> THEN Res("ok", VNull)
        ELSE IF Contains(p, TAB) THEN Res("error", VNull)
        ELSE IF ValueIndicatorAt(p) # {} THEN Res("error", VNull)
        ELSE IF p[1] \in Indicators THEN Res("error", VNull)
        ELSE IF p[1] \in {"-", "?"} /\ (Len(p) = 1 \/ IsSpace(p[2])) THEN Res("error", VNull)
        ELSE ResolvePlain(p)

\* what may follow a closed quoted scalar or flow sequence on its line
OnlyComment(rest) == Strip(rest) = <<>> \/ (IsSpace(rest[1]) /\ LStrip(rest)[1] = "#")

\* a quoted scalar without escapes, q the quote character
ParseQuoted(x, q) ==
    LET close == {i \in 2..Len(x) : x[i] = q}
    IN  IF close = {} THEN Res("error", VNull)
        ELSE LET j == SetMin(close)
             IN  IF OnlyComment(Drop(x, j))
                 THEN Res("ok", VStr(SubSeq(x, 2, j - 1)))
                 ELSE Res("error", VNull)

\* x.split(',')
RECURSIVE SplitComma(_)
SplitComma(x) ==
    LET at == {i \in 1..Len(x) : x[i] = ","}
    IN  IF at = {} THEN <<x>>
        ELSE <<SubSeq(x, 1, SetMin(at) - 1)>> \o SplitComma(Drop(x, SetMin(at)))

\* one entry of a flow sequence
ParseFlowItem(x) ==
    LET p == Strip(x)
    IN  IF p = <<>> THEN Res("error", VNull)
        ELSE IF p[1] \in {"\"", "'"}
             THEN (IF Len(p) >= 2 /\ p[Len(p)] = p[1]
                      /\ \A i \in 2..(Len(p) - 1) : p[i] # p[1]
                   THEN Res("ok", VStr(SubSeq(p, 2, Len(p) - 1)))
                   ELSE Res("error", VNull))
        ELSE IF \E i \in 1..Len(p) : p[i] \in {"[", "]", "{", "}", "\"", "'"}
             THEN Res("error", VNull)
        ELSE ParsePlain(p)

\* a flow sequence [a, b, ...] of scalars
FlowItems(items) ==
    IF \E i \in 1..Len(items) : items[i].st = "raise" THEN Res("raise", VNull)
    ELSE IF \E i \in 1..Len(items) : items[i].st = "error" THEN Res("error", VNull)
    ELSE Res("ok", VList([i \in 1..Len(items) |-> items[i].v]))

FlowInner(inner) ==
    IF inner = <<>> THEN Res("ok", VList(<<>>))
    ELSE FlowItems([i \in 1..Len(SplitComma(inner)) |-> ParseFlowItem(SplitComma(inner)[i])])

ParseFlowSeq(x) ==
    LET close == {i \in 2..Len(x) : x[i] = "]"}
    IN  IF close = {} THEN Res("error", VNull)
        ELSE IF ~OnlyComment(Drop(x, SetMin(close))) THEN Res("error", VNull)
        ELSE FlowInner(Strip(SubSeq(x, 2, SetMin(close) - 1)))

\* the value after "key:" or "-", or a top-level scalar (x is stripped)
ParseScalar(x) ==
    IF x = <<>> \/ x[1] = "#" THEN Res("ok", VNull)
    ELSE IF x[1] = "\"" THEN ParseQuoted(x, "\"")
    ELSE IF x[1] = "'" THEN ParseQuoted(x, "'")
    ELSE IF x[1] = "[" THEN ParseFlowSeq(x)
    ELSE ParsePlain(x)

\* parser state between lines: kind is "none", "map", "seq" or "scalar";
\* open is the key whose value is still empty and may take "- item" lines
YamlStart ==
    [st |-> "ok", kind |-> "none", fm |-> <<>>, open |-> <<>>, seq |-> <<>>,
     scal |-> <<>>, v |-> VNull]

YamlFail(acc, st) == [acc EXCEPT !.st = st]

\* "- item"
SeqItem(r, acc) ==
    IF r.st # "ok" THEN YamlFail(acc, r.st)
    ELSE IF acc.kind = "map" /\ acc.open # <<>>
         THEN [acc EXCEPT !.fm = Put(acc.fm, acc.open,
                                     VList(Get(acc.fm, acc.open).l \o <<r.v>>))]
    ELSE IF acc.kind \in {"none", "seq"}
         THEN [acc EXCEPT !.kind = "seq", !.seq = acc.seq \o <<r.v>>]
    ELSE YamlFail(acc, "error")

YamlSeqEntry(body, acc) == SeqItem(ParseScalar(Strip(Drop(body, 1))), acc)

\* "key: value"
MapItem(key, valtext, r, acc) ==
    IF acc.kind \notin {"none", "map"} \/ key = <<>> THEN YamlFail(acc, "error")
    ELSE IF r.st # "ok" THEN YamlFail(acc, r.st)
    ELSE [acc EXCEPT !.kind = "map",
                     !.fm = Put(acc.fm, key, r.v),
                     !.open = IF CutComment(valtext) = <<>> \/ valtext[1] = "#"
                              THEN key ELSE <<>>]

MapValue(key, valtext, acc) == MapItem(key, valtext, ParseScalar(valtext), acc)

YamlMapEntry(body, sep, acc) ==
    MapValue(RStrip(SubSeq(body, 1, sep - 1)), Strip(Drop(body, sep)), acc)

\* a top-level line that is neither an entry of a mapping nor of a sequence
ScalarItem(body, text, r, acc) ==
    IF r.st # "ok" THEN YamlFail(acc, r.st)
    ELSE IF acc.kind = "none"
         THEN [acc EXCEPT !.kind = "scalar", !.v = r.v,
                          !.scal = IF body[1] \in {"\"", "'", "["} THEN <<>> ELSE text]
    ELSE IF acc.kind = "scalar" /\ acc.scal # <<>> /\ body[1] \notin {"\"", "'", "["}
         THEN [acc EXCEPT !.scal = acc.scal \o <<" ">> \o text,
                          !.v = VStr(acc.scal \o <<" ">> \o text)]
    ELSE YamlFail(acc, "error")

YamlScalarLine(body, acc) == ScalarItem(body, CutComment(body), ParseScalar(body), acc)

\* the ':' of body that separate a key from its value, before any comment
KeySeparators(body) ==
    {i \in ValueIndicatorAt(body) :
        i < (IF CommentAt(body) = {} THEN Len(body) + 1 ELSE SetMin(CommentAt(body)))}

YamlEntry(line, ind, body, seps, acc) ==
    IF body = <<>> THEN (IF Contains(line, TAB) THEN YamlFail(acc, "error") ELSE acc)
    ELSE IF body[1] = "#" THEN acc
    ELSE IF body[1] = TAB THEN YamlFail(acc, "error")
    ELSE IF body = <<"-">> \/ StartsWith(body, <<"-", " ">>) THEN YamlSeqEntry(body, acc)
    ELSE IF ind > 0 THEN YamlFail(acc, "error")
    ELSE IF body[1] \notin {"\"", "'", "["} /\ seps # {}
         THEN YamlMapEntry(body, SetMin(seps), acc)
    ELSE YamlScalarLine(body, acc)

YamlBody(line, ind, body, acc) == YamlEntry(line, ind, body, KeySeparators(body), acc)

YamlLine(line, acc) ==
    YamlBody(line, LeadingCount(line, " "), RStrip(Drop(line, LeadingCount(line, " "))), acc)

RECURSIVE YamlLines(_, _)
YamlLines(lines, acc) ==
    IF lines = <<>> \/ acc.st # "ok" THEN acc
    ELSE YamlLines(Tail(lines), YamlLine(Head(lines), acc))

\* yaml.safe_load(text): [st, dict (TRUE when the document is a mapping), fm, v]
Loaded(acc) ==
    [st |-> acc.st,
     dict |-> acc.st = "ok" /\ acc.kind = "map",
     fm |-> IF acc.st = "ok" /\ acc.kind = "map" THEN acc.fm ELSE <<>>,
     v |-> IF acc.st # "ok" THEN VNull
           ELSE IF acc.kind = "seq" THEN VList(acc.seq)
           ELSE IF acc.kind = "scalar" THEN acc.v
           ELSE VNull]

yaml_safe_load(lines) == Loaded(YamlLines(lines, YamlStart))

----------------------------------------------------------------------------
(* attempt_yaml_fix and extract_frontmatter_and_content                     *)

\* the characters whose presence makes attempt_yaml_fix quote a value
FixSpecial == {"-", ":", "[", "]", "{", "}", "&", "*", "#", "|", ">", "%"}

\* the loop body of attempt_yaml_fix for one line
FixYamlLine(line) ==
    IF Strip(line) = <<>> THEN line
    ELSE IF Contains(line, ":")
         THEN LET at == SetMin({i \in 1..Len(line) : line[i] = ":"})
                  key == Strip(SubSeq(line, 1, at - 1))
                  value == Strip(Drop(line, at))
                  bare == /\ value # <<>>
                          /\ value[1] \notin {"\"", "'", "[", "{"}
                          /\ Lower(value) \notin {W_true, W_false}
                          /\ ~AllDigits(value)
                  quote == bare /\ \E i \in 1..Len(value) : value[i] \in FixSpecial
              IN  key \o <<":", " ">> \o (IF quote THEN <<"\"">> \o value \o <<"\"">> ELSE value)
         ELSE line

\* "yaml.safe_load(text) or {}" : what the name frontmatter is bound to.
\* raised: an exception other than yaml.YAMLError left safe_load;
\* dict: the value is a dict (fm); otherwise it is the non-dict value v
OrEmptyDict(r) ==
    [raised |-> r.st = "raise",
     failed |-> r.st = "error",
     dict |-> r.st = "ok" /\ (r.dict \/ ~Truthy(r.v)),
     fm |-> r.fm,
     v |-> r.v]

\* "except yaml.YAMLError: return {}" of attempt_yaml_fix
OrGiveUp(r) ==
    IF r.failed
    THEN [raised |-> FALSE, failed |-> FALSE, dict |-> TRUE, fm |-> <<>>, v |-> VNull]
    ELSE r

attempt_yaml_fix(yaml_content) ==
    OrGiveUp(OrEmptyDict(yaml_safe_load(
        [i \in 1..Len(yaml_content) |-> FixYamlLine(yaml_content[i])])))

DASHES == <<"-", "-", "-">>

\* the text of zero or more lines: ''.split('\n') is one empty line
AsText(lines) == IF lines = <<>> THEN << <<>> >> ELSE lines

Extracted(r, fixed, remaining_content) ==
    [none |-> FALSE, dict |-> r.dict, raised |-> r.raised, fixed |-> fixed,
     fm |-> r.fm, v |-> r.v, content |-> remaining_content]

\* the try / except yaml.YAMLError of lines 56-61, first the result of line 57
LoadOrFix(yaml_content, first, remaining_content) ==
    IF first.failed
    THEN Extracted(attempt_yaml_fix(yaml_content), TRUE, remaining_content)
    ELSE Extracted(first, FALSE, remaining_content)

\* extract_frontmatter_and_content letting the end of the text close the block
extract_unclosed(markdown_content) ==
    LET lines == markdown_content
        ends == {i \in 2..Len(lines) : Strip(lines[i]) = DASHES} \cup {Len(lines) + 1}
        absent == [none |-> TRUE, dict |-> FALSE, raised |-> FALSE, fixed |-> FALSE,
                   fm |-> <<>>, v |-> VNull, content |-> markdown_content]
    IN  IF ~StartsWith(lines[1], DASHES) THEN absent
        ELSE LET yaml_end == SetMin(ends)
                 yaml_content == AsText(SubSeq(lines, 2, yaml_end - 1))
                 remaining_content == AsText(SubSeq(lines, yaml_end + 1, Len(lines)))
             IN  LoadOrFix(yaml_content, OrEmptyDict(yaml_safe_load(yaml_content)),
                           remaining_content)

\* extract_frontmatter_and_content(markdown_content):
\*   none    the frontmatter returned is None
\*   dict    the frontmatter returned is a dict (fm)
\*   raised  the call raised instead of returning
\*   fixed   attempt_yaml_fix was called
extract_frontmatter_and_content(markdown_content) ==
    LET lines == markdown_content
        ends == {i \in 2..Len(lines) : Strip(lines[i]) = DASHES}
        absent == [none |-> TRUE, dict |-> FALSE, raised |-> FALSE, fixed |-> FALSE,
                   fm |-> <<>>, v |-> VNull, content |-> markdown_content]
    IN  IF ~StartsWith(lines[1], DASHES) THEN absent
        ELSE IF ends = {} THEN absent
        ELSE LET yaml_end == SetMin(ends)
                 yaml_content == AsText(SubSeq(lines, 2, yaml_end - 1))
                 remaining_content == AsText(SubSeq(lines, yaml_end + 1, Len(lines)))
             IN  LoadOrFix(yaml_content, OrEmptyDict(yaml_safe_load(yaml_content)),
                           remaining_content)

----------------------------------------------------------------------------
(* parse_date                                                               *)

\* date_obj.strftime('%Y-%m-%d').  How %Y renders a year below 1000 is left to
\* the C library: padded to four digits (padded) or not (glibc before
\* Python 3.13)
StrfTime(y, m, d, padded) ==
    (IF padded THEN Pad4(y) ELSE IntToStr(y)) \o <<"-">> \o Pad2(m) \o <<"-">> \o Pad2(d)

IsDigitAt(x, i) == i >= 1 /\ i <= Len(x) /\ IsDigit(x[i])

IsCharAt(x, i, c) == i >= 1 /\ i <= Len(x) /\ x[i] = c

DigitsAt(x, i, n) == \A k \in i..(i + n - 1) : IsDigitAt(x, k)

\* the matches of (\d{a})c(\d{b})c(\d{e}) in x as <<start, a, b, e>>, for the
\* group widths the pattern allows
Matches(x, c, widths) ==
    {m \in (1..Len(x)) \X widths[1] \X widths[2] \X widths[3] :
        LET p == m[1]
            a == m[2]
            b == m[3]
            e == m[4]
        IN  /\ DigitsAt(x, p, a)
            /\ IsCharAt(x, p + a, c)
            /\ DigitsAt(x, p + a + 1, b)
            /\ IsCharAt(x, p + a + b + 1, c)
            /\ DigitsAt(x, p + a + b + 2, e)}

\* the match re.search reports: leftmost, each group greedy
FirstMatch(ms) ==
    CHOOSE m \in ms : \A o \in ms :
        \/ m[1] < o[1]
        \/ m[1] = o[1] /\ m[2] > o[2]
        \/ m[1] = o[1] /\ m[2] = o[2] /\ m[3] > o[3]
        \/ m[1] = o[1] /\ m[2] = o[2] /\ m[3] = o[3] /\ m[4] >= o[4]

\* m.groups() as integers
Groups(x, m) ==
    <<StrToInt(SubSeq(x, m[1], m[1] + m[2] - 1)),
      StrToInt(SubSeq(x, m[1] + m[2] + 1, m[1] + m[2] + m[3])),
      StrToInt(SubSeq(x, m[1] + m[2] + m[3] + 2, m[1] + m[2] + m[3] + m[4] + 1))>>

\* the four patterns of parse_date: separator, group widths, year first
DatePatterns ==
    << [sep |-> "-", widths |-> <<{4}, {1, 2}, {1, 2}>>, year_first |-> TRUE],
       [sep |-> "/", widths |-> <<{4}, {1, 2}, {1, 2}>>, year_first |-> TRUE],
       [sep |-> "/", widths |-> <<{1, 2}, {1, 2}, {4}>>, year_first |-> FALSE],
       [sep |-> "-", widths |-> <<{1, 2}, {1, 2}, {4}>>, year_first |-> FALSE] >>

\* one iteration of "for pattern in patterns": the date returned, or <<>> for continue
TryPattern(x, pat, padded) ==
    LET ms == Matches(x, pat.sep, pat.widths)
    IN  IF ms = {} THEN <<>>
        ELSE LET g == Groups(x, FirstMatch(ms))
                 year == IF pat.year_first THEN g[1] ELSE g[3]
                 month == IF pat.year_first THEN g[2] ELSE g[1]
                 day == IF pat.year_first THEN g[3] ELSE g[2]
             IN  IF ValidDate(year, month, day) THEN StrfTime(year, month, day, padded) ELSE <<>>

RECURSIVE TryPatterns(_, _, _)
TryPatterns(x, pats, padded) ==
    IF pats = <<>> THEN <<>>
    ELSE IF TryPattern(x, Head(pats), padded) # <<>> THEN TryPattern(x, Head(pats), padded)
    ELSE TryPatterns(x, Tail(pats), padded)

\* parse_date(date_input) when the clock reads current_date.  A value of the
\* subset is never a datetime.datetime; when no pattern matches, the
\* dateutil import or parse of lines 238-239 is taken to fail.
parse_date(date_input, current_date, padded) ==
    LET x == PyStr(date_input)
        hit == TryPatterns(x, DatePatterns, padded)
    IN  IF hit # <<>> THEN hit ELSE current_date

----------------------------------------------------------------------------
(* standardize_frontmatter                                                  *)

K_title == <<"t", "i", "t", "l", "e">>

K_titel == <<"t", "i", "t", "e", "l">>

K_author == <<"a", "u", "t", "h", "o", "r">>

K_date == <<"d", "a", "t", "e">>

K_description == <<"d", "e", "s", "c", "r", "i", "p", "t", "i", "o", "n">>

K_short_path == <<"s", "h", "o", "r", "t", "-", "p", "a", "t", "h">>

K_categories == <<"c", "a", "t", "e", "g", "o", "r", "i", "e", "s">>

K_draft == <<"d", "r", "a", "f", "t">>

K_toc == <<"t", "o", "c">>

K_toc_depth == <<"t", "o", "c", "-", "d", "e", "p", "t", "h">>

K_code_line_numbers == <<"c", "o", "d", "e", "-", "l", "i", "n", "e", "-", "n", "u", "m", "b", "e", "r", "s">>

AUTHOR == <<"N", "i", "k", "h", "i", "l", " ", "A", "g", "a", "r", "w", "a", "l">>

\* the placeholder description: the two characters ""
EMPTY_DESC == <<"\"", "\"">>

quarto_fields ==
    << <<"s", "u", "b", "t", "i", "t", "l", "e">>,
       <<"i", "m", "a", "g", "e">>,
       <<"i", "m", "a", "g", "e", "-", "a", "l", "t">>,
       <<"l", "a", "n", "g">>,
       <<"b", "i", "b", "l", "i", "o", "g", "r", "a", "p", "h", "y">>,
       <<"c", "i", "t", "a", "t", "i", "o", "n">>,
       <<"g", "o", "o", "g", "l", "e", "-", "s", "c", "h", "o", "l", "a", "r">>,
       <<"f", "i", "l", "t", "e", "r", "s">>,
       <<"l", "i", "g", "h", "t", "b", "o", "x">>,
       <<"f", "i", "g", "-", "c", "a", "p", "-", "l", "o", "c", "a", "t", "i", "o", "n">> >>

Range(f) == {f[i] : i \in DOMAIN f}

\* the conversion of a str value of draft, toc or code-line-numbers
StrToBool(x) == Lower(x) \in {W_true, W_yes, <<"1">>}

\* the boolean handling shared by draft, toc and code-line-numbers:
\* a str is converted, any other value is kept as it is
BoolField(frontmatter, key) ==
    LET v == GetOr(frontmatter, key, VBool(FALSE))
    IN  IF v.t = "str" THEN VBool(StrToBool(v.s)) ELSE v

\* int(v): [ok, n]; ok = FALSE stands for ValueError or TypeError
PyInt(v) ==
    CASE v.t = "int" -> [ok |-> TRUE, n |-> v.n]
      [] v.t = "bool" -> [ok |-> TRUE, n |-> IF v.b THEN 1 ELSE 0]
      [] v.t = "str" ->
            LET x == Strip(v.s)
                u == Unsigned(x)
            IN  IF u # <<>> /\ AllDigits(u)
                THEN [ok |-> TRUE, n |-> Signed(x, StrToInt(u))]
                ELSE [ok |-> FALSE, n |-> 0]
      [] OTHER -> [ok |-> FALSE, n |-> 0]

\* the value toc-depth falls back to
DefaultTocDepth == 3

\* the author entry keeping an author the metadata names
keep_author(frontmatter) ==
    IF Truthy(Get(frontmatter, K_author)) THEN VStr(PyStr(Get(frontmatter, K_author)))
    ELSE VStr(AUTHOR)

\* the author entry of clean_frontmatter
CleanAuthor(frontmatter) == VStr(AUTHOR)

\* what lines 379-397 append to changes_made, by kind: "converted" (a string
\* made a list), "multiple" (entries after the first dropped), "added"
CategoriesChanges(frontmatter) ==
    LET categories == GetOr(frontmatter, K_categories, VList(<<>>))
    IN  IF categories.t = "str" THEN {"converted"}
        ELSE IF categories.t = "list"
             THEN (IF Len(categories.l) > 1 THEN {"multiple"} ELSE {})
        ELSE {"added"}

\* CleanCategories keeping every entry of a list
keep_all_categories(frontmatter) ==
    LET categories == GetOr(frontmatter, K_categories, VList(<<>>))
    IN  IF categories.t = "str" THEN VList(<<VStr(Strip(categories.s))>>)
        ELSE IF categories.t = "list"
             THEN VList([i \in 1..Len(categories.l) |-> VStr(Strip(PyStr(categories.l[i])))])
        ELSE VList(<<>>)

\* the categories entry of clean_frontmatter
CleanCategories(frontmatter) ==
    LET categories == GetOr(frontmatter, K_categories, VList(<<>>))
    IN  IF categories.t = "str" THEN VList(<<VStr(Strip(categories.s))>>)
        ELSE IF categories.t = "list" /\ categories.l # <<>>
             THEN VList(<<VStr(Strip(PyStr(categories.l[1])))>>)
        ELSE VList(<<>>)

\* yaml_title without the misspelled key
yaml_title_only(frontmatter) == Get(frontmatter, K_title)

\* frontmatter.get('title') or frontmatter.get('titel')
yaml_title(frontmatter) == Or(Get(frontmatter, K_title), Get(frontmatter, K_titel))

\* standardize_frontmatter(frontmatter, content, post_dir) for a dict
\* frontmatter: st is "ok", "MissingTitle" (the ValueError of line 320) or
\* "TooManyConflicts" (the ValueError of line 289); slug is short_path as it
\* is handed to check_short_path_conflict; changes is the part of changes_made
\* that is about categories
standardize_frontmatter(frontmatter, content, dir_name, current_date, published, padded) ==
    LET fixed_content == fix_duplicate_headings(content)
        extracted == extract_title_from_content(fixed_content)
        title == IF Truthy(yaml_title(frontmatter))
                 THEN Strip(PyStr(yaml_title(frontmatter))) ELSE extracted.title
        final_content == IF Truthy(yaml_title(frontmatter))
                         THEN fixed_content ELSE extracted.content
        date_value == Get(frontmatter, K_date)
        date == IF Truthy(date_value) THEN parse_date(date_value, current_date, padded)
                ELSE current_date
        description == Get(frontmatter, K_description)
        given == Get(frontmatter, K_short_path)
        short_path == IF ~Truthy(given) \/ Len(Strip(PyStr(given))) = 0
                      THEN sanitize_filename(title)
                      ELSE sanitize_filename(PyStr(given))
        now_prefix == SelectSeq(current_date, LAMBDA c : c # "-")
        final_short_path == check_short_path_conflict(short_path, dir_name, now_prefix, published)
        toc == BoolField(frontmatter, K_toc)
        depth == IF K_toc_depth \in DOMAIN frontmatter
                 THEN PyInt(frontmatter[K_toc_depth]) ELSE [ok |-> FALSE, n |-> 0]
        keys == {K_title, K_author, K_date, K_description, K_short_path, K_categories,
                 K_draft, K_toc, K_code_line_numbers}
                \cup (IF Truthy(toc) \/ K_toc_depth \in DOMAIN frontmatter
                      THEN {K_toc_depth} ELSE {})
                \cup (Range(quarto_fields) \cap DOMAIN frontmatter)
        clean_frontmatter ==
            [k \in keys |->
                CASE k = K_title -> VStr(title)
                  [] k = K_author -> CleanAuthor(frontmatter)
                  [] k = K_date -> VStr(date)
                  [] k = K_description ->
                        IF Truthy(description) THEN VStr(Strip(PyStr(description)))
                        ELSE VStr(EMPTY_DESC)
                  [] k = K_short_path -> VStr(final_short_path.value)
                  [] k = K_categories -> CleanCategories(frontmatter)
                  [] k = K_draft -> BoolField(frontmatter, K_draft)
                  [] k = K_toc -> toc
                  [] k = K_toc_depth -> VInt(IF depth.ok THEN depth.n ELSE DefaultTocDepth)
                  [] k = K_code_line_numbers -> BoolField(frontmatter, K_code_line_numbers)
                  [] OTHER -> frontmatter[k]]
    IN  IF ~Truthy(yaml_title(frontmatter)) /\ ~extracted.found
        THEN [st |-> "MissingTitle", fm |-> <<>>, content |-> content, slug |-> <<>>,
              changes |-> {}]
        ELSE IF ~final_short_path.ok
        THEN [st |-> "TooManyConflicts", fm |-> <<>>, content |-> content, slug |-> short_path,
              changes |-> {}]
        ELSE [st |-> "ok", fm |-> clean_frontmatter, content |-> final_content,
              slug |-> short_path, changes |-> CategoriesChanges(frontmatter)]

----------------------------------------------------------------------------
(* format_yaml_frontmatter                                                  *)

\* ordered_fields with categories in the place standardize_frontmatter inserts it
ordered_fields_as_inserted ==
    <<K_title, K_author, K_date, K_description, K_short_path, K_categories, K_draft,
      K_toc, K_toc_depth, K_code_line_numbers>>

ordered_fields ==
    <<K_title, K_author, K_date, K_description, K_short_path, K_draft,
      K_toc, K_toc_depth, K_code_line_numbers, K_categories>>

\* the order in which standardize_frontmatter inserts its keys
insertion_order ==
    <<K_title, K_author, K_date, K_description, K_short_path, K_categories,
      K_draft, K_toc, K_toc_depth, K_code_line_numbers>> \o quarto_fields

KeyColon(field) == field \o <<":">>

\* str(value).lower() of a bool
LowerBool(b) == IF b THEN W_true ELSE W_false

\* the lines the first loop of format_yaml_frontmatter appends for one field
OrderedLines(field, value) ==
    IF field = K_categories
    THEN (IF value.t = "list"
          THEN (IF value.l # <<>>
                THEN <<KeyColon(field)>>
                     \o [i \in 1..Len(value.l) |-> <<" ", " ", "-", " ">> \o PyStr(value.l[i])]
                ELSE <<KeyColon(field) \o <<" ", "[", "]">> >>)
          ELSE <<KeyColon(field) \o <<" ", "[">> \o PyStr(value) \o <<"]">> >>)
    ELSE IF field = K_date
    THEN <<KeyColon(field) \o <<" ", "\"">> \o PyStr(value) \o <<"\"">> >>
    ELSE IF value.t = "bool"
    THEN <<KeyColon(field) \o <<" ">> \o LowerBool(value.b)>>
    ELSE IF value.t = "str" /\ (Contains(value.s, ":") \/ Lower(value.s) \in {W_true, W_false})
    THEN <<KeyColon(field) \o <<" ", "\"">> \o value.s \o <<"\"">> >>
    ELSE <<KeyColon(field) \o <<" ">> \o PyStr(value)>>

\* the line the second loop appends for one remaining field
RemainingLine(field, value) ==
    IF value.t = "bool"
    THEN KeyColon(field) \o <<" ">> \o LowerBool(value.b)
    ELSE KeyColon(field) \o <<" ">> \o PyStr(value)

RECURSIVE OrderedPart(_, _)
OrderedPart(fields, frontmatter) ==
    IF fields = <<>> THEN <<>>
    ELSE (IF Head(fields) \in DOMAIN frontmatter
          THEN OrderedLines(Head(fields), frontmatter[Head(fields)])
          ELSE <<>>) \o OrderedPart(Tail(fields), frontmatter)

RECURSIVE RemainingPart(_, _)
RemainingPart(fields, frontmatter) ==
    IF fields = <<>> THEN <<>>
    ELSE (IF Head(fields) \in DOMAIN frontmatter /\ Head(fields) \notin Range(ordered_fields)
          THEN <<RemainingLine(Head(fields), frontmatter[Head(fields)])>>
          ELSE <<>>) \o RemainingPart(Tail(fields), frontmatter)

\* format_yaml_frontmatter(frontmatter) as the lines of the returned text
format_yaml_frontmatter(frontmatter) ==
    <<DASHES>> \o OrderedPart(ordered_fields, frontmatter)
        \o RemainingPart(insertion_order, frontmatter) \o <<DASHES, <<>> >>

\* a + b for two texts given as lines
TextConcat(a, b) == SubSeq(a, 1, Len(a) - 1) \o <<a[Len(a)] \o b[1]>> \o Tail(b)

----------------------------------------------------------------------------
(* process_post_directory and main                                          *)

\* process_post_directory(post_dir) on the text of its content file:
\*   st    "ok" (returns True), or why the except clause of line 589 was
\*         reached: "MissingTitle", "TooManyConflicts", "NotADict" (the
\*         AttributeError of frontmatter.get on a str or a list) or
\*         "Constructor" (the ValueError that left yaml.safe_load)
\*   text  the text of the file afterwards
\* lines 573-587 and the except clause, e the result of line 562 and r what
\* standardize_frontmatter returns or raises
Written(text, e, r) ==
    LET failure(st) == [st |-> st, text |-> text, fm |-> <<>>, content |-> e.content,
                        slug |-> IF st = "TooManyConflicts" THEN r.slug ELSE <<>>,
                        changes |-> {}]
    IN  IF e.raised THEN failure("Constructor")
        ELSE IF ~e.none /\ ~e.dict THEN failure("NotADict")
        ELSE IF r.st # "ok" THEN failure(r.st)
        ELSE [st |-> "ok",
              text |-> TextConcat(format_yaml_frontmatter(r.fm), r.content),
              fm |-> r.fm,
              content |-> r.content,
              slug |-> r.slug,
              changes |-> r.changes]

\* lines 564-571
Standardized(text, e, dir_name, current_date, published, padded) ==
    Written(text, e, standardize_frontmatter(IF e.none THEN <<>> ELSE e.fm, e.content,
                                             dir_name, current_date, published, padded))

process_post_directory(text, dir_name, current_date, published, padded) ==
    Standardized(text, extract_frontmatter_and_content(text), dir_name, current_date,
                 published, padded)

\* code points order of the characters of a directory name
ASCII_ORDER == <<"-">> \o DIGITS \o UPPER \o <<"_">> \o LOWER

Ord(c) == CHOOSE i \in 1..Len(ASCII_ORDER) : ASCII_ORDER[i] = c

\* a < b for two str
LexLess(a, b) ==
    \E i \in 1..(Len(a) + 1) :
        /\ i <= Len(b)
        /\ SubSeq(a, 1, i - 1) = SubSeq(b, 1, i - 1)
        /\ (i = Len(a) + 1 \/ Ord(a[i]) < Ord(b[i]))

\* sorted(post_dirs)
RECURSIVE Sorted(_)
Sorted(S) ==
    IF S = {} THEN <<>>
    ELSE LET least == CHOOSE a \in S : \A b \in S \ {a} : LexLess(a, b)
         IN  <<least>> \o Sorted(S \ {least})

NotRun ==
    [st |-> "none", text |-> <<>>, fm |-> <<>>, content |-> <<>>, slug |-> <<>>, changes |-> {}]

\* how often the script is started in one behaviour
MaxRuns == 2

\* lines 622-625, r the outcome of process_post_directory(post_dir)
Counted(post_dir, r) ==
    /\ staging' = [staging EXCEPT ![post_dir] = r.text]
    /\ report' = [report EXCEPT ![post_dir] = r]
    /\ success_count' = IF r.st = "ok" THEN success_count + 1 ELSE success_count
    /\ failed_posts' = IF r.st = "ok" THEN failed_posts ELSE Append(failed_posts, post_dir)

\* one iteration of "for post_dir in sorted(post_dirs)"
ProcessNext ==
    /\ pc = "loop"
    /\ todo # <<>>
    /\ \E padded \in BOOLEAN :
           Counted(Head(todo),
                   process_post_directory(staging[Head(todo)], Head(todo), now, posts, padded))
    /\ todo' = Tail(todo)
    /\ UNCHANGED <<posts, original, pc, exit_code, run, now, previous, orchestrator>>

\* the end of main: sys.exit(0) without post directories, sys.exit(1) with
\* failed posts, status 0 otherwise
Summary ==
    /\ pc = "loop"
    /\ todo = <<>>
    /\ pc' = "exit"
    /\ exit_code' = IF failed_posts # <<>> THEN 1 ELSE 0
    /\ UNCHANGED <<staging, posts, todo, success_count, failed_posts, report, original,
                   run, now, previous, orchestrator>>

\* the date of the first run
Today == <<"2", "0", "2", "6", "-", "1", "1", "-", "0", "4">>

\* the dates the clock may read
Clock == {Today, <<"2", "0", "2", "6", "-", "1", "1", "-", "0", "5">>}

\* the script is started again on the files the last run left
RunAgain ==
    /\ pc = "exit"
    /\ run < MaxRuns
    /\ run' = run + 1
    /\ now' \in {d \in Clock : d = now \/ LexLess(now, d)}
    /\ pc' = "loop"
    /\ todo' = Sorted(DOMAIN staging)
    /\ success_count' = 0
    /\ failed_posts' = <<>>
    /\ report' = [d \in DOMAIN staging |-> NotRun]
    /\ previous' = report
    /\ original' = staging
    /\ exit_code' = 0
    /\ UNCHANGED <<staging, posts, orchestrator>>

Next == ProcessNext \/ Summary \/ RunAgain

\* the orchestrator when the script is run by hand
NotStarted ==
    [pc |-> "off", args |-> [promote |-> FALSE, dry_run |-> FALSE, keep_staging |-> FALSE],
     started |-> <<>>, returncodes |-> <<>>, reported |-> <<>>, promoted |-> FALSE,
     status |-> 0,
     ingest |-> {}, ingest_readme |-> "none", staging_readme |-> "none",
     posts_dir |-> FALSE, staging_dir |-> TRUE, path_mapping |-> <<>>, outcome |-> <<>>]

\* the state when main starts on the given staging and posts directories
Start(files, published, date) ==
    /\ staging = files
    /\ posts = published
    /\ now = date
    /\ todo = Sorted(DOMAIN files)
    /\ success_count = 0
    /\ failed_posts = <<>>
    /\ report = [d \in DOMAIN files |-> NotRun]
    /\ previous = [d \in DOMAIN files |-> NotRun]
    /\ original = files
    /\ pc = "loop"
    /\ exit_code = 0
    /\ run = 1
    /\ orchestrator = NotStarted

----------------------------------------------------------------------------
(* inputs                                                                   *)

L_title_A == <<"t", "i", "t", "l", "e", ":", " ", "A">>

L_titel_B == <<"t", "i", "t", "e", "l", ":", " ", "B">>

L_title_blank == <<"t", "i", "t", "l", "e", ":", " ", "\"", " ", " ", "\"">>

L_title_padded == <<"t", "i", "t", "l", "e", ":", " ", "\"", " ", "A", " ", "\"">>

L_title_colon == <<"t", "i", "t", "l", "e", ":", " ", "A", ":", " ", "B">>

L_title_open == <<"t", "i", "t", "l", "e", ":", " ", "\"", "A">>

L_title_hash == <<"t", "i", "t", "l", "e", ":", " ", "A", " ", "#", "1">>

L_text == <<"j", "u", "s", "t", " ", "t", "e", "x", "t">>

L_item == <<"-", " ", "a">>

L_bad_date == <<"d", "a", "t", "e", ":", " ", "2", "0", "2", "5", "-", "0", "2", "-", "3", "0">>

L_short_path == <<"s", "h", "o", "r", "t", "-", "p", "a", "t", "h", ":", " ", "M", "y", " ", "P", "o", "s", "t">>

L_date == <<"d", "a", "t", "e", ":", " ", "2", "0", "2", "5", "-", "0", "8", "-", "1", "3">>

L_cats == <<"c", "a", "t", "e", "g", "o", "r", "i", "e", "s", ":", " ", "[", "a", ",", " ", "b", "]">>

L_toc == <<"t", "o", "c", ":", " ", "y", "e", "s">>

H1_A == <<"#", " ", "A">>

H1_dup == <<"#", " ", "#", " ", "A">>

H1_triple == <<"#", " ", "#", " ", "#", " ", "A">>

H1_tab == <<"\t", "#", " ", "#", " ", "A">>

H2_B == <<"#", "#", " ", "B">>

T_text == <<"t", "e", "x", "t">>

T_padded == <<" ", "t", "e", "x", "t", " ">>

T_blank == <<" ">>

D_x == <<"2", "0", "2", "6", "0", "1", "0", "1", "_", "x">>

D_y == <<"2", "0", "2", "6", "0", "1", "0", "1", "_", "y">>

D_a == <<"2", "0", "2", "6", "0", "1", "0", "1", "_", "a">>

P_a == <<"2", "0", "2", "5", "0", "1", "0", "1", "_", "a">>

P_b == <<"2", "0", "2", "5", "0", "1", "0", "1", "_", "b">>

H1_tabsep == <<"#", "\t", "#", " ", "A">>

H1_hello == <<"#", " ", "#", " ", "H", "e", "l", "l", "o", " ", "W", "o", "r", "l", "d">>

\* a delimited metadata block
Block(lines) == <<DASHES>> \o lines \o <<DASHES>>

\* a metadata block with the fields a normalized file has
FullBlock == Block(<<L_title_A, L_short_path, L_date, L_cats, L_toc>>)

\* what a document may start with: nothing, an unterminated block, blocks
\* that parse to a mapping, blocks that do not
Headers ==
    { <<>>, <<DASHES, L_title_A>>, Block(<<>>),
      Block(<<L_title_A>>), Block(<<L_titel_B>>), Block(<<L_title_blank>>),
      Block(<<L_title_padded>>), Block(<<L_title_hash>>), FullBlock,
      Block(<<L_title_colon>>), Block(<<L_title_open>>),
      Block(<<L_text>>), Block(<<L_item>>), Block(<<L_bad_date>>) }

BodyLines == {H1_A, H1_dup, H1_tab, H1_tabsep, H2_B, T_text, T_padded, T_blank, <<>>}

\* the longest body, in lines
MaxBodyLines == 2

Bodies == UNION {[1..k -> BodyLines] : k \in 1..MaxBodyLines}

\* one post directory holding any header followed by any body
InitDoc == \E h \in Headers, b \in Bodies : Start((D_x :> (h \o b)), {}, Today)

SpecDoc == InitDoc /\ [][Next]_vars

\* the characters of a heading line: marker, the two kinds of indentation, text
HeadingAlphabet == {"#", " ", TAB, "a"}

\* the longest line
MaxLineLen == 5

HeadingLines == UNION {[1..k -> HeadingAlphabet] : k \in 0..MaxLineLen} \cup {H1_hello}

\* one post directory holding one line, with a declared title or without
InitHeading ==
    \E h \in {<<>>, Block(<<L_title_A>>)}, line \in HeadingLines :
        Start((D_x :> (h \o <<line>>)), {}, Today)

SpecHeading == InitHeading /\ [][Next]_vars

\* the directory of posts/ that publishes short_path
PostDir(short_path) == <<"2", "0", "2", "5", "0", "1", "0", "1", "_">> \o short_path

\* posts/ with short_path and its suffixes -01 .. -full in use, but for -hole
Taken(short_path, full, hole) ==
    {P_b, PostDir(short_path)}
    \cup {PostDir(short_path \o <<"-">> \o Fmt02(k)) : k \in (1..full) \ {hole}}

\* the largest suffix left free in a family of published posts
MaxHole == 3

Families ==
    {{}, {P_b}}
    \cup {Taken(<<"a">>, full, hole) :
            full \in {0, 1, 2, 3, MaxCounter - 1, MaxCounter}, hole \in 0..MaxHole}

\* one post directory whose slug is "a" (from the heading) or "my-post" (from
\* the metadata), named after its slug or not, against a family of posts
InitConflict ==
    \E doc \in {<<H1_A, T_text>>, Block(<<L_title_A, L_short_path>>) \o <<T_text>>},
       dir \in {D_x, D_a}, published \in Families :
        Start((dir :> doc), published, Today)

SpecConflict == InitConflict /\ [][Next]_vars

\* the line "key: text" of a metadata block
Field(key, text) == KeyColon(key) \o <<" ">> \o text

Years == { <<"2", "0", "2", "5">>, <<"2", "0", "2", "4">>, <<"0", "9", "9", "9">> }

Months == { <<"0", "2">>, <<"0", "8">>, <<"8">>, <<"1", "3">> }

Days == { <<"2", "9">>, <<"1", "3">>, <<"3">> }

\* a date written year first or year last, with the separator sep
YearFirst(y, m, d, sep) == y \o <<sep>> \o m \o <<sep>> \o d

YearLast(y, m, d, sep) == m \o <<sep>> \o d \o <<sep>> \o y

\* what a date field may hold: the four layouts on possible and impossible
\* days, text that is no date, a number, a quoted date
DateTexts ==
    {YearFirst(y, m, d, sep) : y \in Years, m \in Months, d \in Days, sep \in {"-", "/"}}
    \cup {YearLast(y, m, d, sep) : y \in Years, m \in Months, d \in Days, sep \in {"-", "/"}}
    \cup
    { <<"n", "o", "t", " ", "a", " ", "d", "a", "t", "e">>, <<"2", "0", "2", "5", "0", "8", "1", "3">>,
      <<"\"", "2", "0", "2", "5", "-", "0", "8", "-", "1", "3", "\"">> }

\* what a categories field may hold, as the lines of the block
CategoryBlocks ==
    {<<Field(K_categories, t)>> : t \in
        { <<"a">>, <<"\"", " ", "a", " ", "\"">>, <<"[", "a", "]">>, <<"[", "a", ",", " ", "b", "]">>,
          <<"[", "a", ",", " ", "b", ",", " ", "c", "]">>, <<"[", "]">>, <<"5">>, <<>>,
          <<"[", "1", ",", " ", "b", "]">>, <<"t", "r", "u", "e">> }}
    \cup { <<KeyColon(K_categories), <<" ", " ", "-", " ", "a">>, <<" ", " ", "-", " ", "b">>>>,
           <<KeyColon(K_categories)>> }

\* what draft, toc and code-line-numbers may hold: YAML booleans, strings,
\* integers, null, lists
BoolTexts ==
    { <<"t", "r", "u", "e">>, <<"f", "a", "l", "s", "e">>, <<"y", "e", "s">>, <<"N", "o">>, <<"\"", "y", "e", "s", "\"">>,
      <<"\"", "T", "R", "U", "E", "\"">>, <<"\"", "1", "\"">>, <<"\"", "0", "\"">>, <<"m", "a", "y", "b", "e">>, <<"1">>,
      <<"0">>, <<>>, <<"[", "]">>, <<"[", "a", "]">> }

\* what toc-depth may hold
DepthTexts ==
    { <<"2">>, <<"\"", "2", "\"">>, <<"a", "b", "c">>, <<"t", "r", "u", "e">>,
      <<"-", "1">>, <<>>, <<"[", "2", "]">> }

\* what short-path may hold
ShortPathTexts ==
    { <<"m", "y", "-", "p", "o", "s", "t">>, <<"M", "y", " ", "P", "o", "s", "t">>, <<"a", "_", "b">>, <<"-", "a", "-", "-", "b", "-">>,
      <<"\"", "?", "?", "?", "\"">>, <<"a", ".", "b">>, <<"5">>, <<"\"", "\"">>,
      <<"A", " ", " ", "B">>, <<"[", "a", "]">> }

\* what author may hold
AuthorTexts ==
    { <<"B", "o", "b">>, <<"N", "i", "k", "h", "i", "l", " ", "A", "g", "a", "r", "w", "a", "l">>, <<"\"", "\"">>, <<>>,
      <<"5">>, <<"[", "a", "]">>, <<"t", "r", "u", "e">> }

\* titles with characters sanitize_filename removes, keeps or turns to dashes
TitleTexts ==
    { <<"H", "e", "l", "l", "o", ",", " ", "W", "o", "r", "l", "d", "!">>, <<"\"", "?", "?", "?", "\"">>, <<"a", " ", "-", " ", "b">>, <<"M", "y", "_", "P", "o", "s", "t">>,
      <<"C", "+", "+">>, <<"Q", "&", "A">>, <<"p", "o", "s", "t", " ", "2">>, <<"-", "x", "-">> }

L_subtitle == <<"s", "u", "b", "t", "i", "t", "l", "e", ":", " ", "S">>

L_image == <<"i", "m", "a", "g", "e", ":", " ", "i", ".", "p", "n", "g">>

L_toc_true == <<"t", "o", "c", ":", " ", "t", "r", "u", "e">>

\* the fields of a metadata block next to its title
FieldBlocks ==
    {<<Field(K_date, t)>> : t \in DateTexts}
    \cup CategoryBlocks
    \cup {<<Field(k, t)>> : k \in {K_draft, K_toc, K_code_line_numbers}, t \in BoolTexts}
    \cup {<<Field(K_toc, t), Field(K_toc_depth, n)>> : t \in BoolTexts, n \in DepthTexts}
    \cup {<<Field(K_toc_depth, n)>> : n \in DepthTexts}
    \cup {<<Field(K_short_path, t)>> : t \in ShortPathTexts}
    \cup {<<Field(K_author, t)>> : t \in AuthorTexts}
    \cup { <<>>, <<L_image, L_cats, L_subtitle, L_toc_true, L_date>>,
           <<L_subtitle, L_toc_true, L_image>>, <<L_cats, L_short_path, L_image>> }

\* one post directory whose metadata block holds a title and the fields of one
\* block, or only a title
InitFields ==
    \/ \E f \in FieldBlocks :
          Start((D_x :> (Block(<<L_title_A>> \o f) \o <<T_text>>)), {}, Today)
    \/ \E t \in TitleTexts :
          Start((D_x :> (Block(<<Field(K_title, t)>>) \o <<T_text>>)), {}, Today)

SpecFields == InitFields /\ [][Next]_vars

\* the documents of a batch
BatchDocs ==
    { <<H1_A, T_text>>, <<H1_A>>, <<T_text>>,
      Block(<<L_title_A>>) \o <<H1_triple>>,
      Block(<<L_title_blank>>) \o <<T_text>>,
      Block(<<L_text>>) \o <<T_text>>,
      FullBlock \o <<T_text>> }

\* the most post directories in processed-staging/
MaxBatch == 2

Batches ==
    UNION {[dirs -> BatchDocs] :
             dirs \in {D \in SUBSET {D_x, D_y, D_a} : Cardinality(D) <= MaxBatch}}

Init ==
    \E files \in Batches, published \in {{}, {P_a}, Taken(<<"a">>, 1, 0)} :
        Start(files, published, Today)

Spec == Init /\ [][Next]_vars

----------------------------------------------------------------------------
(* 00-process-markdown-import.py                                            *)

S01 == "01-sanitize-filenames.py"

S02 == "02-standardize-yaml.py"

S04 == "04-fix-image-paths.py"

pipeline_steps ==
    <<S01, S02, "03-convert-highlights.py", S04, "05-validate-content.py">>

\* the statuses a script other than 02-standardize-yaml.py may exit with
ExitCodes == {0, 1, 2}

\* the markdown files ingest-external-md/ may hold and the post directory
\* 01-sanitize-filenames.py stages each of them as
M_x == <<"x", ".", "m", "d">>

M_y == <<"y", ".", "m", "d">>

StagedAs == (M_x :> D_x) @@ (M_y :> D_y)

\* the content of a README.md
README == "Drop the exported files here."

\* what 01-sanitize-filenames.py may leave in the post directories dirs of
\* processed-staging/: documents with a title, one without
PipelineBatches(dirs) ==
    [dirs -> {<<H1_A, T_text>>, <<T_text>>, FullBlock \o <<T_text>>}]

\* run_script ignoring the exit status of the script
run_script_unchecked(returncode) == TRUE

\* run_script(script_name, description) for a script that exists and exits
\* with returncode: check=True raises CalledProcessError on a status other
\* than 0
run_script(returncode) == returncode = 0

\* check_prerequisites: False when a directory or a script is missing or
\* ingest-external-md/ holds no markdown file, and then main exits with 1
CheckPrerequisites ==
    /\ orchestrator.pc = "start"
    /\ \E ok \in {b \in BOOLEAN : b => orchestrator.ingest # {}} :
          orchestrator' =
             IF ok THEN [orchestrator EXCEPT !.pc = "clear"]
             ELSE [orchestrator EXCEPT !.pc = "exit", !.status = 1]
    /\ UNCHANGED <<staging, posts, todo, success_count, failed_posts, report, original, pc,
                   exit_code, run, now, previous>>

\* what is left of processed-staging/README.md when clear_staging_directory
\* raises: shutil.rmtree may have unlinked it before it failed on another
\* entry, mkdir may fail after everything is gone, and the open(..., 'w') or
\* the write that restores it may fail on the truncated file
readme_after_failure(readme_content, emptied) ==
    IF readme_content = "none" THEN {"none"}
    ELSE {readme_content, "none"} \cup (IF emptied THEN {""} ELSE {})

\* clear_staging_directory: the post directories are removed and README.md is
\* written back; on an exception it returns False, main exits with 1, and
\* what rmtree had removed by then is gone
ClearStagingDirectory ==
    /\ orchestrator.pc = "clear"
    /\ \/ /\ staging' = <<>>
          /\ orchestrator' = [orchestrator EXCEPT !.pc = "pipeline"]
       \/ \E kept \in SUBSET (DOMAIN staging) :
            \E readme \in readme_after_failure(orchestrator.staging_readme, kept = {}) :
               /\ staging' = [d \in kept |-> staging[d]]
               /\ orchestrator' = [orchestrator EXCEPT !.pc = "exit", !.status = 1,
                                                       !.staging_readme = readme]
    /\ UNCHANGED <<posts, todo, success_count, failed_posts, report, original, pc,
                   exit_code, run, now, previous>>

\* one iteration of "for script_name, description in pipeline_steps" up to
\* subprocess.run: the script is started; for 02-standardize-yaml.py that is
\* the start of its main on processed-staging/
RunScript ==
    /\ orchestrator.pc = "pipeline"
    /\ orchestrator' =
          [orchestrator EXCEPT !.pc = "script",
                               !.started = Append(@, pipeline_steps[Len(@) + 1])]
    /\ IF pipeline_steps[Len(orchestrator.started) + 1] = S02
       THEN /\ todo' = Sorted(DOMAIN staging)
            /\ success_count' = 0
            /\ failed_posts' = <<>>
            /\ report' = [d \in DOMAIN staging |-> NotRun]
            /\ previous' = [d \in DOMAIN staging |-> NotRun]
            /\ original' = staging
            /\ pc' = "loop"
            /\ exit_code' = 0
       ELSE UNCHANGED <<todo, success_count, failed_posts, report, previous, original, pc,
                        exit_code>>
    /\ UNCHANGED <<staging, posts, run, now>>

\* the orchestrator after run_script has returned for the script that exited
\* with returncode: sys.exit(1) on False, else the next step or the end of
\* the loop
Returned(o, returncode) ==
    IF ~run_script(returncode)
    THEN [o EXCEPT !.returncodes = Append(@, returncode), !.pc = "exit", !.status = 1]
    ELSE IF Len(o.started) < Len(pipeline_steps)
    THEN [o EXCEPT !.returncodes = Append(@, returncode), !.pc = "pipeline"]
    ELSE [o EXCEPT !.returncodes = Append(@, returncode), !.pc = "completed"]

\* the status the main of a script ends with after it has reported an error
\* for at least one post: 01-sanitize-filenames.py, 03-convert-highlights.py
\* and 05-validate-content.py call sys.exit(1); 04-fix-image-paths.py prints
\* "Some posts had errors" and returns, which is status 0
status_after_errors(script) == IF script = S04 THEN 0 ELSE 1

\* the script that was started exits: 02-standardize-yaml.py with the status
\* its main ends with, having reported the posts of failed_posts; any other
\* script with status_after_errors when it has reported an error for a
\* post, else with a status of ExitCodes;
\* 01-sanitize-filenames.py exiting with 0 has staged every markdown file of
\* ingest-external-md/ as a post directory.
\* What the scripts 03, 04 and 05 do to the files is not modelled here.
ScriptExits ==
    /\ orchestrator.pc = "script"
    /\ orchestrator.started[Len(orchestrator.started)] = S02 => pc = "exit"
    /\ \E errors \in IF orchestrator.started[Len(orchestrator.started)] = S02
                      THEN {failed_posts # <<>>} ELSE BOOLEAN :
       \E returncode \in
            IF orchestrator.started[Len(orchestrator.started)] = S02 THEN {exit_code}
            ELSE IF errors
            THEN {status_after_errors(orchestrator.started[Len(orchestrator.started)])}
            ELSE ExitCodes :
          IF orchestrator.started[Len(orchestrator.started)] = S01 /\ returncode = 0
          THEN /\ staging' \in PipelineBatches({StagedAs[m] : m \in orchestrator.ingest})
               /\ orchestrator' =
                     [Returned(orchestrator, returncode) EXCEPT
                         !.reported = Append(@, errors),
                         !.path_mapping = [m \in orchestrator.ingest |-> StagedAs[m]]]
          ELSE /\ staging' = staging
               /\ orchestrator' =
                     [Returned(orchestrator, returncode) EXCEPT !.reported = Append(@, errors)]
    /\ UNCHANGED <<posts, todo, success_count, failed_posts, report, original, pc,
                   exit_code, run, now, previous>>

\* what promote_to_posts does with one post directory
NotCopied == [response |-> "", removed |-> FALSE, copied |-> FALSE]

\* the loop body of promote_to_posts without the dry_run guards
promote_post_for_real(exists, dry_run) ==
    IF exists
    THEN {[response |-> "n", removed |-> FALSE, copied |-> FALSE],
          [response |-> "y", removed |-> FALSE, copied |-> FALSE],
          [response |-> "y", removed |-> TRUE, copied |-> FALSE],
          [response |-> "y", removed |-> TRUE, copied |-> TRUE]}
    ELSE {NotCopied, [NotCopied EXCEPT !.copied = TRUE]}

\* the loop body of promote_to_posts for a post directory whose destination
\* in posts/ exists or not: with dry_run nothing is asked, removed or copied;
\* else an existing destination is kept when the answer to input() is not
\* "y" or shutil.rmtree fails, and shutil.copytree may fail
promote_post(exists, dry_run) ==
    IF dry_run THEN {NotCopied} ELSE promote_post_for_real(exists, dry_run)

\* promote_to_posts(dry_run) on the post directories post_dirs with the
\* directories published in posts/: what may happen to each
promote_to_posts(post_dirs, published, dry_run) ==
    {outcome \in [post_dirs -> [response : {"", "y", "n"}, removed : BOOLEAN,
                                 copied : BOOLEAN]] :
        \A d \in post_dirs : outcome[d] \in promote_post(d \in published, dry_run)}

\* "if not args.dry_run and args.promote": the condition of both cleanups
cleans_up(args) == ~args.dry_run /\ args.promote

\* main after the loop: with --promote or --dry-run promote_to_posts is
\* called; it makes posts/ unless dry_run, and returns True whatever
\* happened to the posts
Promotion ==
    /\ orchestrator.pc = "completed"
    /\ IF orchestrator.args.promote \/ orchestrator.args.dry_run
       THEN \E outcome \in promote_to_posts(DOMAIN staging, posts, orchestrator.args.dry_run) :
               /\ posts' = (posts \ {d \in DOMAIN staging : outcome[d].removed})
                              \cup {d \in DOMAIN staging : outcome[d].copied}
               /\ orchestrator' =
                     [orchestrator EXCEPT
                         !.pc = IF cleans_up(orchestrator.args) THEN "cleanup" ELSE "exit",
                         !.promoted = TRUE,
                         !.outcome = outcome,
                         !.posts_dir = @ \/ (~orchestrator.args.dry_run /\ DOMAIN staging # {})]
       ELSE /\ orchestrator' = [orchestrator EXCEPT !.pc = "exit"]
            /\ posts' = posts
    /\ UNCHANGED <<staging, todo, success_count, failed_posts, report, original, pc, exit_code,
                   run, now, previous>>

\* what a cleanup may leave of the items it removes: nothing, or, when
\* shutil.rmtree or unlink raises, the items it had not removed by then
left_by_cleanup(items) == SUBSET items

\* cleanup_staging(keep_staging=False), which main calls unless
\* --keep-staging is given: every item but README.md and readme.md is
\* removed; main ignores what it returns
CleanupStaging ==
    /\ orchestrator.pc = "cleanup"
    /\ \E kept \in IF orchestrator.args.keep_staging THEN {DOMAIN staging}
                   ELSE left_by_cleanup(DOMAIN staging) :
          staging' = [d \in kept |-> staging[d]]
    /\ orchestrator' = [orchestrator EXCEPT !.pc = "cleanup_ingest"]
    /\ UNCHANGED <<posts, todo, success_count, failed_posts, report, original, pc,
                   exit_code, run, now, previous>>

\* cleanup_ingest_directory: every item but README.md and readme.md is
\* removed; main goes on to its end whatever it returns
CleanupIngestDirectory ==
    /\ orchestrator.pc = "cleanup_ingest"
    /\ \E kept \in left_by_cleanup(orchestrator.ingest) :
          orchestrator' = [orchestrator EXCEPT !.pc = "exit", !.ingest = kept]
    /\ UNCHANGED <<staging, posts, todo, success_count, failed_posts, report, original, pc,
                   exit_code, run, now, previous>>

NextPipeline ==
    \/ CheckPrerequisites \/ ClearStagingDirectory \/ RunScript \/ ProcessNext \/ Summary
    \/ ScriptExits \/ Promotion \/ CleanupStaging \/ CleanupIngestDirectory

\* the orchestrator is started with any arguments: posts/ missing, empty or
\* holding a post, one of them under a name that will be staged again;
\* ingest-external-md/ and processed-staging/ with a README.md or without
InitPipeline ==
    /\ staging \in {<<>>, (D_a :> <<T_text>>)}
    /\ posts \in {{}, {P_a}, {D_x}}
    /\ now = Today
    /\ todo = <<>>
    /\ success_count = 0
    /\ failed_posts = <<>>
    /\ report = <<>>
    /\ previous = <<>>
    /\ original = <<>>
    /\ pc = "idle"
    /\ exit_code = 0
    /\ run = 1
    /\ \E promote \in BOOLEAN, dry_run \in BOOLEAN, keep_staging \in BOOLEAN,
          ingest \in {{}, {M_x}, {M_x, M_y}},
          ingest_readme \in {"none", README}, staging_readme \in {"none", README},
          posts_dir \in {b \in BOOLEAN : posts # {} => b} :
          orchestrator =
             [NotStarted EXCEPT !.pc = "start",
                                !.args = [promote |-> promote, dry_run |-> dry_run,
                                          keep_staging |-> keep_staging],
                                !.ingest = ingest,
                                !.ingest_readme = ingest_readme,
                                !.staging_readme = staging_readme,
                                !.posts_dir = posts_dir]

SpecPipeline == InitPipeline /\ [][NextPipeline]_vars

----------------------------------------------------------------------------
(* 03-convert-highlights.py                                                 *)

NL == "\n"

\* the content of a file for the text that is its lines, and back
RECURSIVE JoinLines(_)
JoinLines(text) ==
    IF Len(text) = 1 THEN text[1] ELSE text[1] \o <<NL>> \o JoinLines(Tail(text))

RECURSIVE SplitLines(_)
SplitLines(content) ==
    IF ~Contains(content, NL) THEN <<content>>
    ELSE LET i == SetMin({k \in 1..Len(content) : content[k] = NL})
         IN  <<SubSeq(content, 1, i - 1)>> \o SplitLines(Drop(content, i))

\* the colour emoji, each one character of the content
GREEN == "U+1F7E2"

RED == "U+1F534"

BLUE == "U+1F535"

YELLOW == "U+1F7E1"

PURPLE == "U+1F7E3"

HIGHLIGHT_COLORS ==
    (GREEN :> <<"#", "9", "0", "E", "E", "9", "0">>)
    @@ (RED :> <<"#", "f", "f", "c", "c", "c", "b">>)
    @@ (BLUE :> <<"#", "a", "d", "d", "8", "e", "6">>)
    @@ (YELLOW :> <<"#", "f", "f", "f", "f", "e", "0">>)
    @@ (PURPLE :> <<"#", "d", "d", "a", "0", "d", "d">>)

MARK_OPEN ==
    <<"<", "m", "a", "r", "k", " ", "s", "t", "y", "l", "e", "=", "\"", "b", "a", "c", "k",
      "g", "r", "o", "u", "n", "d", "-", "c", "o", "l", "o", "r", ":", " ">>

MARK_CLOSE == <<"<", "/", "m", "a", "r", "k", ">">>

convert_highlight_to_html(color_emoji, text) ==
    IF color_emoji \notin DOMAIN HIGHLIGHT_COLORS
    THEN <<"<", "m", "a", "r", "k", ">">> \o text \o MARK_CLOSE
    ELSE MARK_OPEN \o HIGHLIGHT_COLORS[color_emoji] \o <<"\"", ">">> \o text \o MARK_CLOSE

\* \s and \w of re on the characters the documents are made of
IsReSpace(c) == c \in WhiteSpace \cup {NL}

IsTagChar(c) == IsDigit(c) \/ IsLowerAlpha(c) \/ IsLowerAlpha(LowerChar(c)) \/ c = "_"

\* the last index of the run of characters that are not "=" and start at k
\* (k - 1 when there is none): the greedy [^=]+
TextEnd(s, k) ==
    IF \A j \in k..Len(s) : s[j] # "=" THEN Len(s)
    ELSE SetMin({j \in k..Len(s) : s[j] = "="}) - 1

\* r'==(emoji)([^=]+)==' matches at i
HighlightAt(s, i) ==
    /\ i + 2 <= Len(s)
    /\ s[i] = "="
    /\ s[i + 1] = "="
    /\ s[i + 2] \in DOMAIN HIGHLIGHT_COLORS
    /\ TextEnd(s, i + 3) >= i + 3
    /\ TextEnd(s, i + 3) + 2 <= Len(s)
    /\ s[TextEnd(s, i + 3) + 1] = "="
    /\ s[TextEnd(s, i + 3) + 2] = "="

\* steps 1 and 2 of process_markdown_content: every match of
\* find_bear_highlights, from left to right, is replaced by its markup; m is
\* the index of the first match in s[i..]
RECURSIVE ConvertHighlights(_, _)
ConvertAt(s, i, m) ==
    SubSeq(s, i, m - 1)
    \o convert_highlight_to_html(s[m + 2], SubSeq(s, m + 3, TextEnd(s, m + 3)))
    \o ConvertHighlights(s, TextEnd(s, m + 3) + 3)

ConvertHighlights(s, i) ==
    IF \A k \in i..Len(s) : ~HighlightAt(s, k) THEN SubSeq(s, i, Len(s))
    ELSE ConvertAt(s, i, SetMin({k \in i..Len(s) : HighlightAt(s, k)}))

\* the index of the first "#" after i, 0 when there is none
NextHash(s, i) ==
    IF \A j \in (i + 1)..Len(s) : s[j] # "#" THEN 0
    ELSE SetMin({j \in (i + 1)..Len(s) : s[j] = "#"})

\* multiword_pattern r'#([^#\n]*[\s/][^#\n]*)#' matches at i, up to j
MultiwordMatch(s, i, j) ==
    /\ s[i] = "#"
    /\ j # 0
    /\ \E k \in (i + 1)..(j - 1) :
          /\ IsReSpace(s[k]) \/ s[k] = "/"
          /\ \A m \in ((i + 1)..(j - 1)) \ {k} : s[m] # NL

\* re.sub(multiword_pattern, '', content) from index i on
RECURSIVE RemoveMultiword(_, _)
RemoveMultiwordAt(s, i, m) == SubSeq(s, i, m - 1) \o RemoveMultiword(s, NextHash(s, m) + 1)

RemoveMultiword(s, i) ==
    IF \A k \in i..Len(s) : ~MultiwordMatch(s, k, NextHash(s, k)) THEN SubSeq(s, i, Len(s))
    ELSE RemoveMultiwordAt(s, i, SetMin({k \in i..Len(s) :
                                           MultiwordMatch(s, k, NextHash(s, k))}))

\* the last index of the run of [a-zA-Z0-9_] that starts at k (k - 1 when
\* there is none)
WordEnd(s, k) ==
    IF \A j \in k..Len(s) : IsTagChar(s[j]) THEN Len(s)
    ELSE SetMin({j \in k..Len(s) : ~IsTagChar(s[j])}) - 1

\* the end of the greedy (?:/[a-zA-Z0-9_]+)* after a word that ends at e
RECURSIVE TagEnd(_, _)
TagEnd(s, e) ==
    IF e + 2 <= Len(s) /\ s[e + 1] = "/" /\ IsTagChar(s[e + 2])
    THEN TagEnd(s, WordEnd(s, e + 2))
    ELSE e

\* singleword_pattern
\* r'(?<!\w)#([a-zA-Z0-9_]+(?:/[a-zA-Z0-9_]+)*)(?=\s|$|[^\w/])' matches at i:
\* a shorter tag than the greedy one is followed by a word character or by
\* "/", so only the greedy one can satisfy the lookahead
SinglewordAt(s, i) ==
    /\ s[i] = "#"
    /\ i = 1 \/ ~IsTagChar(s[i - 1])
    /\ i + 1 <= Len(s)
    /\ IsTagChar(s[i + 1])
    /\ TagEnd(s, WordEnd(s, i + 1)) = Len(s) \/ s[TagEnd(s, WordEnd(s, i + 1)) + 1] # "/"

\* re.sub(singleword_pattern, '', content) from index i on
RECURSIVE RemoveSingleword(_, _)
RemoveSinglewordAt(s, i, m) ==
    SubSeq(s, i, m - 1) \o RemoveSingleword(s, TagEnd(s, WordEnd(s, m + 1)) + 1)

RemoveSingleword(s, i) ==
    IF \A k \in i..Len(s) : ~SinglewordAt(s, k) THEN SubSeq(s, i, Len(s))
    ELSE RemoveSinglewordAt(s, i, SetMin({k \in i..Len(s) : SinglewordAt(s, k)}))

\* s[i] is a space that re.sub(r'(?<=\S) {2,}', ' ', line) removes: not the
\* first of a run of spaces that follows a character other than whitespace
SpaceDropped(s, i) ==
    /\ i > 2
    /\ s[i] = " "
    /\ s[i - 1] = " "
    /\ \E j \in 1..(i - 2) : ~IsReSpace(s[j]) /\ \A k \in (j + 1)..i : s[k] = " "

\* the substitution on every line that is not blank, the lines joined again
RECURSIVE CollapseSpaces(_, _)
CollapseSpacesAt(s, i, m) == SubSeq(s, i, m - 1) \o CollapseSpaces(s, m + 1)

CollapseSpaces(s, i) ==
    IF \A k \in i..Len(s) : ~SpaceDropped(s, k) THEN SubSeq(s, i, Len(s))
    ELSE CollapseSpacesAt(s, i, SetMin({k \in i..Len(s) : SpaceDropped(s, k)}))

remove_bear_tags(content) ==
    CollapseSpaces(RemoveSingleword(RemoveMultiword(content, 1), 1), 1)

IsHexChar(c) == IsDigit(c) \/ LowerChar(c) \in {"a", "b", "c", "d", "e", "f"}

\* the last index of the run of characters of the given kind that starts at k
RECURSIVE RunEnd(_, _, _)
RunEnd(s, k, hex) ==
    IF k <= Len(s) /\ (IF hex THEN IsHexChar(s[k]) ELSE IsReSpace(s[k]))
    THEN RunEnd(s, k + 1, hex) ELSE k - 1

\* the index of the "]" that ends a match of r'\[HASH\s+[a-fA-F0-9]+\]' at
\* i, 0 when there is no match
HashRefEnd(s, i) ==
    IF /\ i + 4 <= Len(s)
       /\ SubSeq(s, i, i + 4) = <<"[", "H", "A", "S", "H">>
       /\ RunEnd(s, i + 5, FALSE) >= i + 5
       /\ RunEnd(s, RunEnd(s, i + 5, FALSE) + 1, TRUE) > RunEnd(s, i + 5, FALSE)
       /\ RunEnd(s, RunEnd(s, i + 5, FALSE) + 1, TRUE) + 1 <= Len(s)
       /\ s[RunEnd(s, RunEnd(s, i + 5, FALSE) + 1, TRUE) + 1] = "]"
    THEN RunEnd(s, RunEnd(s, i + 5, FALSE) + 1, TRUE) + 1
    ELSE 0

\* re.sub(pattern, '', content) from index i on
RECURSIVE RemoveHashRefs(_, _)
RemoveHashRefsAt(s, i, m) == SubSeq(s, i, m - 1) \o RemoveHashRefs(s, HashRefEnd(s, m) + 1)

RemoveHashRefs(s, i) ==
    IF \A k \in i..Len(s) : HashRefEnd(s, k) = 0 THEN SubSeq(s, i, Len(s))
    ELSE RemoveHashRefsAt(s, i, SetMin({k \in i..Len(s) : HashRefEnd(s, k) # 0}))

remove_hash_references(content) == CollapseSpaces(RemoveHashRefs(content, 1), 1)

\* the processed_content of process_markdown_content(content)
process_markdown_content(content) ==
    remove_hash_references(remove_bear_tags(ConvertHighlights(content, 1)))

\* lines 375-382 of main, ok the result of process_post_directory(post_dir):
\* False when the file cannot be read or written, else the file holds the
\* processed content
Converted(post_dir, ok) ==
    /\ staging' =
          IF ok
          THEN [staging EXCEPT
                   ![post_dir] = SplitLines(process_markdown_content(JoinLines(@)))]
          ELSE staging
    /\ report' = [report EXCEPT ![post_dir] = [NotRun EXCEPT !.st = IF ok THEN "ok" ELSE "IOError"]]
    /\ success_count' = IF ok THEN success_count + 1 ELSE success_count
    /\ failed_posts' = IF ok THEN failed_posts ELSE Append(failed_posts, post_dir)

\* one iteration of "for post_dir in sorted(post_dirs)" in main
ConvertNext ==
    /\ pc = "loop"
    /\ todo # <<>>
    /\ \E ok \in BOOLEAN : Converted(Head(todo), ok)
    /\ todo' = Tail(todo)
    /\ UNCHANGED <<posts, original, pc, exit_code, run, now, previous, orchestrator>>

\* the end of main: sys.exit(1) with failed posts, status 0 otherwise
ConvertSummary ==
    /\ pc = "loop"
    /\ todo = <<>>
    /\ pc' = "exit"
    /\ exit_code' = IF failed_posts # <<>> THEN 1 ELSE 0
    /\ UNCHANGED <<staging, posts, todo, success_count, failed_posts, report, original,
                   run, now, previous, orchestrator>>

NextHighlights == ConvertNext \/ ConvertSummary

\* lines a post may hold: highlights of every colour, alone, two on a line,
\* with "=" or a tag or two spaces in the text; a heading, Bear tags, a
\* [HASH] reference, plain text
HighlightLines ==
    { <<"=", "=", c, "t", "e", "x", "t", "=", "=">> : c \in DOMAIN HIGHLIGHT_COLORS }
    \cup
    { <<"a", " ", "=", "=", RED, "x", "=", "=", " ", "b", " ", "=", "=", BLUE, "y", "=", "=",
        " ", "c">>,
      <<"=", "=", GREEN, "a", "=", "b", "=", "=">>,
      <<"=", "=", YELLOW, "a", " ", " ", "b", "=", "=">>,
      <<"=", "=", PURPLE, "a", " ", "#", "t", "a", "g", " ", "b", "=", "=">>,
      <<"=", "=", "x", "=", "=">>,
      <<"#", " ", "T", "i", "t", "l", "e">>,
      <<"#", "t", "a", "g">>,
      <<"#", "m", "u", "l", "t", "i", " ", "w", "o", "r", "d", " ", "t", "a", "g", "#">>,
      <<"#", "a", "/", "b", " ", "c">>,
      <<"s", "e", "e", " ", "[", "H", "A", "S", "H", " ", "a", "b", "1", "2", "]", " ", " ",
        "n", "o", "w">>,
      <<"C", "#", " ", "a", "n", "d", " ", "F", "#">>,
      T_text, <<>> }

\* the most lines of a post with highlights
MaxHighlightLines == 2

HighlightDocs ==
    UNION {[1..n -> HighlightLines] : n \in 1..MaxHighlightLines}

InitHighlights ==
    \E files \in [{D_x} -> HighlightDocs] : Start(files, {}, Today)

SpecHighlights == InitHighlights /\ [][NextHighlights]_vars

----------------------------------------------------------------------------
(* 01-sanitize-filenames.py                                                 *)

\* sanitize_filename(filename, is_directory=True)
sanitize_directory_name(filename) ==
    LET dashed == [i \in 1..Len(filename) |-> IF filename[i] = " " THEN "-" ELSE filename[i]]
        name == Lower(StripChar(CollapseDashes(RemoveInvalid(dashed)), "-"))
    IN  IF name = <<>> THEN UNTITLED ELSE name

\* date_obj.strftime('%Y%m%d'); padded as for StrfTime
StrfCompact(y, m, d, padded) ==
    (IF padded THEN Pad4(y) ELSE IntToStr(y)) \o Pad2(m) \o Pad2(d)

\* re.match(pattern, date_str) for a pattern between ^ and $: the match that
\* covers date_str, if there is one
FullMatches(x, pat) ==
    {m \in Matches(x, pat.sep, pat.widths) : m[1] = 1 /\ m[2] + m[3] + m[4] + 2 = Len(x)}

\* the body of "for pattern in date_patterns" for a pattern that matches
DateOfMatch(x, pat, m, padded) ==
    LET g == Groups(x, m)
        year == IF pat.year_first THEN g[1] ELSE g[3]
        month == IF pat.year_first THEN g[2] ELSE g[1]
        day == IF pat.year_first THEN g[3] ELSE g[2]
    IN  IF ValidDate(year, month, day) THEN StrfCompact(year, month, day, padded) ELSE <<>>

\* "for pattern in date_patterns": the first date returned, <<>> when the
\* loop ends; the patterns are those of DatePatterns
RECURSIVE CompactDate(_, _, _)
CompactDate(x, pats, padded) ==
    IF pats = <<>> THEN <<>>
    ELSE IF FullMatches(x, Head(pats)) # {}
            /\ DateOfMatch(x, Head(pats), FirstMatch(FullMatches(x, Head(pats))), padded) # <<>>
    THEN DateOfMatch(x, Head(pats), FirstMatch(FullMatches(x, Head(pats))), padded)
    ELSE CompactDate(x, Tail(pats), padded)

\* lines 103-147 for what yaml.safe_load has returned or raised: None unless
\* it is a mapping with a date that one of the patterns reads (a value of
\* the subset is never a datetime.datetime, and the dateutil import fails)
DateOfLoaded(r, padded) ==
    IF r.st # "ok" \/ ~r.dict \/ K_date \notin DOMAIN r.fm THEN <<>>
    ELSE CompactDate(StripChar(StripChar(Strip(PyStr(r.fm[K_date])), "\""), "'"),
                     DatePatterns, padded)

\* extract_date_from_yaml(markdown_content), <<>> for None
extract_date_from_yaml(markdown_content, padded) ==
    LET lines == markdown_content
        ends == {i \in 2..Len(lines) : Strip(lines[i]) = DASHES}
    IN  IF ~StartsWith(JoinLines(StripText(lines)), DASHES) THEN <<>>
        ELSE IF ends = {} THEN <<>>
        ELSE DateOfLoaded(yaml_safe_load(AsText(SubSeq(lines, 2, SetMin(ends) - 1))), padded)

\* get_date_prefix(markdown_content); now_prefix is
\* datetime.now().strftime("%Y%m%d")
get_date_prefix(markdown_content, now_prefix, padded) ==
    IF markdown_content # << <<>> >> /\ extract_date_from_yaml(markdown_content, padded) # <<>>
    THEN extract_date_from_yaml(markdown_content, padded)
    ELSE now_prefix

\* Path(markdown_filename).stem of a name that ends in ".md"
Stem(markdown_filename) == SubSeq(markdown_filename, 1, Len(markdown_filename) - 3)

create_post_directory_name(markdown_filename, markdown_content, now_prefix, padded) ==
    get_date_prefix(markdown_content, now_prefix, padded)
    \o <<"_">> \o sanitize_directory_name(Stem(markdown_filename))

\* the last counter value the loop of handle_naming_conflicts tries
MaxSuffix == 99

\* handle_naming_conflicts taking every name for free
handle_naming_conflicts_unchecked(target_path, existing) ==
    [ok |-> TRUE, value |-> target_path]

\* handle_naming_conflicts(target_path, is_directory=True) when the names
\* existing are in use: the name itself when it is free, else the name with
\* the first free suffix -01 .. -99, else ValueError("Too many naming
\* conflicts ...")
handle_naming_conflicts(target_path, existing) ==
    IF target_path \notin existing THEN [ok |-> TRUE, value |-> target_path]
    ELSE IF \A c \in 1..MaxSuffix : (target_path \o <<"-">> \o Fmt02(c)) \in existing
    THEN [ok |-> FALSE, value |-> <<>>]
    ELSE [ok |-> TRUE,
          value |-> target_path \o <<"-">>
                    \o Fmt02(SetMin({c \in 1..MaxSuffix :
                                       (target_path \o <<"-">> \o Fmt02(c)) \notin existing}))]

\* datetime.now().strftime("%Y%m%d") for the date the clock reads
NowPrefix(date) == SelectSeq(date, LAMBDA c : c # "-")

\* the rest of the loop body of process_directory for md_file once its
\* post_dir_path is r: the directory is made and the content written as
\* index.qmd (images are not modelled); a ValueError ends process_directory
\* and main exits with 1
Staged(md_file, r) ==
    IF r.ok
    THEN /\ staging' = (r.value :> original[md_file]) @@ staging
         /\ report' = (md_file :> [dir |-> r.value, existing |-> DOMAIN staging]) @@ report
         /\ todo' = Tail(todo)
         /\ UNCHANGED <<pc, exit_code>>
    ELSE /\ pc' = "exit"
         /\ exit_code' = 1
         /\ UNCHANGED <<staging, report, todo>>

\* one iteration of "for md_file in markdown_files" in process_directory
SanitizeNext ==
    /\ pc = "loop"
    /\ todo # <<>>
    /\ \E padded \in BOOLEAN :
          Staged(Head(todo),
                 handle_naming_conflicts(
                    create_post_directory_name(Head(todo), original[Head(todo)],
                                               NowPrefix(now), padded),
                    DOMAIN staging))
    /\ UNCHANGED <<posts, success_count, failed_posts, original, run, now, previous,
                   orchestrator>>

\* process_directory returns and main ends with status 0
SanitizeSummary ==
    /\ pc = "loop"
    /\ todo = <<>>
    /\ pc' = "exit"
    /\ exit_code' = 0
    /\ UNCHANGED <<staging, posts, todo, success_count, failed_posts, report, original,
                   run, now, previous, orchestrator>>

NextSanitize == SanitizeNext \/ SanitizeSummary

\* names of markdown files: two that are sanitized to my-post, one other
MarkdownNames ==
    { <<"M", "y", " ", "P", "o", "s", "t", ".", "m", "d">>,
      <<"M", "y", ":", " ", "-", "P", "o", "s", "t", ".", "m", "d">>,
      <<"x", ".", "m", "d">> }

\* what a markdown file may hold: no metadata, a date, a date before the
\* year 1000
MarkdownContents ==
    { <<T_text>>,
      Block(<<L_date>>) \o <<T_text>>,
      Block(<<Field(K_date, <<"0", "9", "9", "9", "-", "0", "1", "-", "0", "2">>)>>) \o <<T_text>> }

\* the most markdown files in ingest-external-md/
MaxIngest == 2

\* the suffixes in use in processed-staging/ but for one: none, some, all
\* but the last, all, and the one left free
SuffixesInUse == {<<0, 0>>, <<2, 0>>, <<3, 2>>, <<MaxSuffix - 1, 0>>, <<MaxSuffix, 0>>}

\* processed-staging/ with the directory name, its suffixes -01 .. -full
\* but for -hole, all holding an index.qmd
StagedFamily(name, full, hole) ==
    [d \in {name} \cup {name \o <<"-">> \o Fmt02(k) : k \in (1..full) \ {hole}} |-> <<H1_A>>]

\* the script is started by hand on a batch of markdown files, found in any
\* order, with processed-staging/ empty or holding directories from before
InitSanitize ==
    /\ \E names \in {N \in SUBSET MarkdownNames : Cardinality(N) <= MaxIngest} :
          /\ original \in [names -> MarkdownContents]
          /\ todo \in {s \in [1..Cardinality(names) -> names] :
                          \A i, j \in DOMAIN s : i # j => s[i] # s[j]}
    /\ staging \in {<<>>} \cup
          {StagedFamily(NowPrefix(Today) \o <<"_", "m", "y", "-", "p", "o", "s", "t">>,
                        u[1], u[2]) : u \in SuffixesInUse}
    /\ previous = staging
    /\ posts = {}
    /\ now = Today
    /\ success_count = 0
    /\ failed_posts = <<>>
    /\ report = <<>>
    /\ pc = "loop"
    /\ exit_code = 0
    /\ run = 1
    /\ orchestrator = NotStarted

SpecSanitize == InitSanitize /\ [][NextSanitize]_vars

----------------------------------------------------------------------------
(* 05-validate-content.py                                                   *)

\* content.strip()
StripContent(s) ==
    IF \A i \in 1..Len(s) : IsReSpace(s[i]) THEN <<>>
    ELSE SubSeq(s, SetMin({i \in 1..Len(s) : ~IsReSpace(s[i])}),
                SetMax({i \in 1..Len(s) : ~IsReSpace(s[i])}))

\* content.find('---', start) + 1 with start = from - 1: the index of the
\* first '---' at or after from, 0 when there is none
FindDashes(s, from) ==
    IF \A i \in from..(Len(s) - 2) : SubSeq(s, i, i + 2) # DASHES THEN 0
    ELSE SetMin({i \in from..(Len(s) - 2) : SubSeq(s, i, i + 2) = DASHES})

\* the index of the second '---' of content.count('---') and
\* content.split('---', 2), 0 when there are fewer than two
SecondDashes(s) == IF FindDashes(s, 1) = 0 THEN 0 ELSE FindDashes(s, FindDashes(s, 1) + 3)

\* content[3:yaml_end].strip() for yaml_end = content.find('---', 3)
YamlContent(s, yaml_end) ==
    StripContent(SubSeq(s, 4, IF yaml_end = 0 THEN Len(s) - 1 ELSE yaml_end - 1))

\* the fields validate_yaml_frontmatter looks up in yaml_data
CheckedFields ==
    {K_title, K_author, K_date, K_categories, K_short_path, K_draft, K_toc,
     K_code_line_numbers, K_description}

\* "field in yaml_data" for a yaml_data that is no mapping: then
\* yaml_data[field] raises TypeError, as does the test itself on a value
\* that is no str and no list
LookupRaises(v) ==
    IF v.t = "str" THEN \E k \in CheckedFields : Occurs(k, v.s)
    ELSE IF v.t = "list" THEN \E k \in CheckedFields, i \in 1..Len(v.l) : v.l[i] = VStr(k)
    ELSE TRUE

\* re.match(r'^\d{4}-\d{2}-\d{2}$', date_str)
IsIsoDate(x) ==
    /\ Len(x) = 10
    /\ \A i \in {1, 2, 3, 4, 6, 7, 9, 10} : IsDigit(x[i])
    /\ x[5] = "-"
    /\ x[8] = "-"

\* re.match(r'^[a-z0-9-]+$', short_path)
IsShortPath(x) ==
    /\ x # <<>>
    /\ \A i \in 1..Len(x) : IsLowerAlpha(x[i]) \/ IsDigit(x[i]) \/ x[i] = "-"

\* the errors validate_yaml_frontmatter finds in a mapping, without the
\* checks of the boolean fields
FieldErrorsButBooleans(yaml_data) ==
    {<<"Missing required field", f>> :
        f \in {g \in {K_title, K_author, K_date} :
                 g \notin DOMAIN yaml_data \/ ~Truthy(yaml_data[g])}}
    \cup (IF K_title \in DOMAIN yaml_data
             /\ (yaml_data[K_title].t # "str" \/ StripContent(yaml_data[K_title].s) = <<>>)
          THEN {<<"Title must be a non-empty string", K_title>>} ELSE {})
    \cup (IF K_date \in DOMAIN yaml_data /\ ~IsIsoDate(PyStr(yaml_data[K_date]))
          THEN {<<"Date format should be YYYY-MM-DD", K_date>>} ELSE {})
    \cup (IF K_categories \in DOMAIN yaml_data /\ yaml_data[K_categories].t # "list"
          THEN {<<"Categories must be a YAML list", K_categories>>} ELSE {})
    \cup (IF K_short_path \in DOMAIN yaml_data
          THEN IF yaml_data[K_short_path].t # "str"
                  \/ StripContent(yaml_data[K_short_path].s) = <<>>
               THEN {<<"short-path must be a non-empty string", K_short_path>>}
               ELSE IF ~IsShortPath(yaml_data[K_short_path].s)
               THEN {<<"short-path contains invalid characters", K_short_path>>}
               ELSE {}
          ELSE {})

\* the errors validate_yaml_frontmatter finds in a mapping
FieldErrors(yaml_data) ==
    FieldErrorsButBooleans(yaml_data)
    \cup {<<"Field should be boolean", f>> :
            f \in {g \in {K_draft, K_toc, K_code_line_numbers} :
                     g \in DOMAIN yaml_data /\ yaml_data[g].t # "bool"}}

YamlResult(raised, errors, dict, yaml_data, v) ==
    [raised |-> raised, errors |-> errors, dict |-> dict, yaml_data |-> yaml_data, v |-> v]

\* lines 38-95 for what yaml.safe_load has returned or raised: a YAMLError
\* is an error, another exception is not caught, None counts as {}
Validated(r) ==
    IF r.st = "error" THEN YamlResult(FALSE, {<<"Invalid YAML syntax", <<>>>>}, TRUE, <<>>, VNull)
    ELSE IF r.st # "ok" THEN YamlResult(TRUE, {}, TRUE, <<>>, VNull)
    ELSE IF r.dict THEN YamlResult(FALSE, FieldErrors(r.fm), TRUE, r.fm, VNull)
    ELSE IF r.v.t = "null" THEN YamlResult(FALSE, FieldErrors(<<>>), TRUE, <<>>, VNull)
    ELSE YamlResult(LookupRaises(r.v), FieldErrors(<<>>), FALSE, <<>>, r.v)

\* validate_yaml_frontmatter(content, filename): the errors (the warnings
\* left out) and yaml_data, or that it raises
validate_yaml_frontmatter(content) ==
    IF ~StartsWith(StripContent(content), DASHES)
    THEN YamlResult(FALSE, {<<"Missing YAML frontmatter", <<>>>>}, TRUE, <<>>, VNull)
    ELSE IF SecondDashes(content) = 0
    THEN YamlResult(FALSE, {<<"Incomplete YAML frontmatter", <<>>>>}, TRUE, <<>>, VNull)
    ELSE Validated(yaml_safe_load(SplitLines(YamlContent(content, FindDashes(content, 4)))))

\* the index of the first character c after i, 0 when there is none
NextChar(s, i, c) ==
    IF \A j \in (i + 1)..Len(s) : s[j] # c THEN 0
    ELSE SetMin({j \in (i + 1)..Len(s) : s[j] = c})

\* image_pattern r'!\[([^\]]*)\]\(([^)]+)\)' matches at i
ImageAt(s, i) ==
    /\ i + 1 <= Len(s)
    /\ s[i] = "!"
    /\ s[i + 1] = "["
    /\ NextChar(s, i + 1, "]") # 0
    /\ NextChar(s, i + 1, "]") + 1 <= Len(s)
    /\ s[NextChar(s, i + 1, "]") + 1] = "("
    /\ NextChar(s, NextChar(s, i + 1, "]") + 1, ")") > NextChar(s, i + 1, "]") + 2

\* validate_image_references for a post directory without img/: every
\* reference is an error
images_valid(content) == \A i \in 1..Len(content) : ~ImageAt(content, i)

\* the characters of the class in the pattern of line 157, which the file
\* holds as U+F8FF, u-umlaut, cent, i-circumflex, yen, micro, degree and
\* pound: none of them is one of the five emoji
REMNANT_CLASS ==
    {"U+F8FF", "U+00FC", "U+00A2", "U+00EE", "U+00A5", "U+00B5", "U+00B0", "U+00A3"}

\* r'==[...][^=]*==' of line 157 matches at i
RemnantAt(s, i) ==
    /\ i + 2 <= Len(s)
    /\ s[i] = "="
    /\ s[i + 1] = "="
    /\ s[i + 2] \in REMNANT_CLASS
    /\ TextEnd(s, i + 3) + 2 <= Len(s)
    /\ s[TextEnd(s, i + 3) + 1] = "="
    /\ s[TextEnd(s, i + 3) + 2] = "="

\* the last index of the run of [a-f0-9] that starts at k
LowerHexEnd(s, k) ==
    IF \A j \in k..Len(s) : IsDigit(s[j]) \/ s[j] \in {"a", "b", "c", "d", "e", "f"} THEN Len(s)
    ELSE SetMin({j \in k..Len(s) :
                   ~(IsDigit(s[j]) \/ s[j] \in {"a", "b", "c", "d", "e", "f"})}) - 1

\* r'\[HASH [a-f0-9]+\]' matches at i
HashRemnantAt(s, i) ==
    /\ i + 5 <= Len(s)
    /\ SubSeq(s, i, i + 5) = <<"[", "H", "A", "S", "H", " ">>
    /\ LowerHexEnd(s, i + 6) >= i + 6
    /\ LowerHexEnd(s, i + 6) + 1 <= Len(s)
    /\ s[LowerHexEnd(s, i + 6) + 1] = "]"

\* r'^(#{1,6}) \1 ' matches the line
DuplicateHeading(line) ==
    \E n \in 1..6 :
        /\ 2 * n + 2 <= Len(line)
        /\ SubSeq(line, 1, 2 * n + 2) = Rep("#", n) \o <<" ">> \o Rep("#", n) \o <<" ">>

\* the last index of the run of digits that starts at k
DigitsEnd(s, k) ==
    IF \A j \in k..Len(s) : IsDigit(s[j]) THEN Len(s)
    ELSE SetMin({j \in k..Len(s) : ~IsDigit(s[j])}) - 1

\* r'\{"width":\d+\}' matches at i
BearSizingAt(s, i) ==
    /\ i + 8 <= Len(s)
    /\ SubSeq(s, i, i + 8) = <<"{", "\"", "w", "i", "d", "t", "h", "\"", ":">>
    /\ DigitsEnd(s, i + 9) >= i + 9
    /\ DigitsEnd(s, i + 9) + 1 <= Len(s)
    /\ s[DigitsEnd(s, i + 9) + 1] = "}"

\* validate_quarto_syntax(content)[0]
syntax_valid(content) ==
    /\ \A i \in 1..Len(content) :
          ~RemnantAt(content, i) /\ ~HashRemnantAt(content, i) /\ ~BearSizingAt(content, i)
    /\ \A i \in 1..Len(SplitLines(content)) : ~DuplicateHeading(SplitLines(content)[i])

\* validate_content_structure(content)[0]: content.split('---', 2) has
\* three parts and the third is not blank
content_valid(content) ==
    /\ SecondDashes(content) # 0
    /\ StripContent(SubSeq(content, SecondDashes(content) + 3, Len(content))) # <<>>

\* validate_single_post for a post directory that holds index.qmd with the
\* content and nothing else: result['valid'] and result['yaml_data'], or
\* that it raises
SinglePost(content, y) ==
    [st |-> IF y.raised THEN "raised" ELSE "validated",
     valid |-> /\ ~y.raised
               /\ y.errors = {}
               /\ images_valid(content)
               /\ syntax_valid(content)
               /\ content_valid(content),
     errors |-> y.errors,
     dict |-> y.dict,
     yaml_data |-> y.yaml_data]

validate_single_post(content) == SinglePost(content, validate_yaml_frontmatter(content))

\* the short-path check of main taking every short-path for unused
no_conflicts(results) == FALSE

\* lines 388-400 of main: conflicts is not empty, which is when two results
\* hold the same short-path that is not falsy
conflicts(results) ==
    \E a \in DOMAIN results, b \in DOMAIN results :
        /\ a # b
        /\ K_short_path \in DOMAIN results[a].yaml_data
        /\ K_short_path \in DOMAIN results[b].yaml_data
        /\ Truthy(results[a].yaml_data[K_short_path])
        /\ results[a].yaml_data[K_short_path] = results[b].yaml_data[K_short_path]

\* the status main ends with once the loop is through: 1 without
\* processed-staging/, 0 without post directories, 1 when a yaml_data that
\* is no mapping makes .get raise AttributeError, else 0 when every post is
\* valid and no short-path is used twice, else 1
validation_status(exists, results) ==
    IF ~exists THEN 1
    ELSE IF DOMAIN results = {} THEN 0
    ELSE IF \E d \in DOMAIN results : ~results[d].dict THEN 1
    ELSE IF (\A d \in DOMAIN results : results[d].valid) /\ ~conflicts(results) THEN 0
    ELSE 1

\* one iteration of "for post_dir in sorted(post_dirs)" in main; an
\* exception that validate_single_post raises ends the script with status 1
ValidateNext ==
    /\ pc = "loop"
    /\ orchestrator.staging_dir
    /\ todo # <<>>
    /\ report' = [report EXCEPT
                     ![Head(todo)] = validate_single_post(JoinLines(staging[Head(todo)]))]
    /\ IF report'[Head(todo)].st = "raised"
       THEN pc' = "exit" /\ exit_code' = 1 /\ todo' = todo
       ELSE pc' = pc /\ exit_code' = exit_code /\ todo' = Tail(todo)
    /\ UNCHANGED <<staging, posts, success_count, failed_posts, original, run, now,
                   previous, orchestrator>>

\* main without processed-staging/, or after the loop
ValidateSummary ==
    /\ pc = "loop"
    /\ ~orchestrator.staging_dir \/ todo = <<>>
    /\ pc' = "exit"
    /\ exit_code' = validation_status(orchestrator.staging_dir, report)
    /\ UNCHANGED <<staging, posts, todo, success_count, failed_posts, report, original,
                   run, now, previous, orchestrator>>

NextValidate == ValidateNext \/ ValidateSummary

\* a metadata block the validator accepts, with the given short-path line
ValidBlock(short_path_lines) ==
    Block(<<L_title_A, Field(K_author, AUTHOR), L_date>> \o short_path_lines
          \o <<Field(K_categories, <<"[", "a", "]">>), Field(K_draft, W_false)>>)

L_my_post == Field(K_short_path, <<"m", "y", "-", "p", "o", "s", "t">>)

\* posts the validator may find: valid ones with the same short-path, with
\* another, with none; invalid ones of every kind
ValidatorDocs ==
    { ValidBlock(<<L_my_post>>) \o <<T_text>>,
      ValidBlock(<<L_my_post>>) \o <<H1_A, T_text>>,
      ValidBlock(<<Field(K_short_path, <<"o", "t", "h", "e", "r">>)>>) \o <<T_text>>,
      ValidBlock(<<>>) \o <<T_text>>,
      ValidBlock(<<Field(K_short_path, <<"a", "_", "b">>)>>) \o <<T_text>>,
      ValidBlock(<<L_my_post, Field(K_toc, <<"1">>)>>) \o <<T_text>>,
      ValidBlock(<<L_my_post>>),
      ValidBlock(<<L_my_post>>) \o <<H1_dup>>,
      ValidBlock(<<L_my_post>>) \o <<<<"=", "=", GREEN, "x", "=", "=">>>>,
      ValidBlock(<<L_my_post>>) \o <<<<"=", "=", "U+00FC", "x", "=", "=">>>>,
      ValidBlock(<<L_my_post>>) \o <<<<"!", "[", "a", "]", "(", "i", "m", "g", "/", "a", ")">>>>,
      Block(<<L_title_A, Field(K_author, AUTHOR),
              Field(K_date, <<"9", "9", "9", "-", "0", "8", "-", "0", "3">>)>>) \o <<T_text>>,
      Block(<<L_title_A>>) \o <<T_text>>,
      Block(<<L_text>>) \o <<T_text>>,
      Block(<<L_item>>) \o <<T_text>>,
      Block(<<L_bad_date>>) \o <<T_text>>,
      <<T_text>> }

\* the validator is started by hand: processed-staging/ is missing, or
\* holds up to two posts
InitValidate ==
    \E exists \in BOOLEAN :
       \E files \in IF exists
                    THEN UNION {[dirs -> ValidatorDocs] : dirs \in {{}, {D_x}, {D_x, D_y}}}
                    ELSE {<<>>} :
          /\ staging = files
          /\ posts = {}
          /\ now = Today
          /\ todo = Sorted(DOMAIN files)
          /\ success_count = 0
          /\ failed_posts = <<>>
          /\ report = [d \in DOMAIN files |-> NotRun]
          /\ previous = [d \in DOMAIN files |-> NotRun]
          /\ original = files
          /\ pc = "loop"
          /\ exit_code = 0
          /\ run = 1
          /\ orchestrator = [NotStarted EXCEPT !.staging_dir = exists]

SpecValidate == InitValidate /\ [][NextValidate]_vars

----------------------------------------------------------------------------
(* properties                                                               *)

\* the post directories the current run has processed
Processed == {d \in DOMAIN report : report[d].st # "none"}

\* the post directories the current run has processed and written
Accepted == {d \in DOMAIN report : report[d].st = "ok"}

\* what extract_frontmatter_and_content gave for the file the run started on
Input(d) == extract_frontmatter_and_content(original[d])

\* the title and the short-path of the normalized metadata
Title(d) == Get(report[d].fm, K_title).s

FinalShortPath(d) == Get(report[d].fm, K_short_path).s

\* the title a mapping declares: under title, else under titel
DeclaredTitle(fm) == IF Truthy(Get(fm, K_title)) THEN Get(fm, K_title) ELSE Get(fm, K_titel)

HasDeclaredTitle(e) == ~e.none /\ e.dict /\ ~e.raised /\ Truthy(DeclaredTitle(e.fm))

NoDeclaredTitle(e) == e.none \/ (e.dict /\ ~e.raised /\ ~Truthy(DeclaredTitle(e.fm)))

\* the heading lines of a body: one or two markers, a space, text
Headings(lines) == {i \in 1..Len(lines) : IsTitleLine(lines[i])}

\* the title is the text of heading i of lines and the body is the other
\* lines, stripped as one text
TitleFromHeading(d, lines, i) ==
    /\ Title(d) = TitleOfLine(lines[i])
    /\ report[d].content = StripText(RemoveAt(lines, i))

required_keys ==
    {K_title, K_author, K_date, K_description, K_short_path, K_categories, K_draft,
     K_toc, K_code_line_numbers}

CompleteBlock(e) ==
    /\ ~e.none /\ e.dict /\ ~e.raised
    /\ required_keys \subseteq DOMAIN e.fm
    /\ Get(e.fm, K_title).t # "null"
    /\ PyStr(Get(e.fm, K_title)) # <<>>
    /\ e.content # << <<>> >>

\* the file holds a complete metadata block and a non-empty body
Complete(text) == CompleteBlock(extract_frontmatter_and_content(text))

\* C1: every processed document is either written with a metadata block
\* holding a non-empty title, author, date, description, short-path,
\* categories, draft, toc and code-line-numbers and with a non-empty body,
\* or it failed and its file is as it was before the call.
C1_CompleteOrUnchanged ==
    \A d \in Processed :
        IF report[d].st = "ok" THEN Complete(staging[d]) ELSE staging[d] = original[d]

\* C2: the final short-paths of the documents normalized in one batch are
\* pairwise distinct.
C2_DistinctShortPaths ==
    \A d1 \in Accepted, d2 \in Accepted : d1 # d2 => FinalShortPath(d1) # FinalShortPath(d2)

\* the short-path a published directory carries after its date prefix
SlugOfDir(dir) == Drop(dir, SetMin({i \in 1..Len(dir) : dir[i] = "_"}))

\* a published post uses the short-path
Used(sp) == \E p \in posts : Contains(p, "_") /\ SlugOfDir(p) = sp

Suffixed(s, k) == s \o <<"-">> \o Fmt02(k)

FreeSuffixes(s) == {k \in 1..MaxCounter : ~Used(Suffixed(s, k))}

\* C3: conflict resolution on slug s returns s when no published post uses
\* s, otherwise s-NN for the smallest NN in 01..99 not in use, fails with
\* TooManyConflicts exactly when s and all of s-01..s-99 are in use, and
\* never returns a short-path a published post uses.
C3_ConflictResolution ==
    \A d \in DOMAIN report :
        report[d].st \in {"ok", "TooManyConflicts"} =>
            /\ IF ~Used(report[d].slug)
               THEN report[d].st = "ok" /\ FinalShortPath(d) = report[d].slug
               ELSE IF FreeSuffixes(report[d].slug) # {}
               THEN /\ report[d].st = "ok"
                    /\ FinalShortPath(d)
                         = Suffixed(report[d].slug, SetMin(FreeSuffixes(report[d].slug)))
               ELSE report[d].st = "TooManyConflicts"
            /\ report[d].st = "ok" => ~Used(FinalShortPath(d))

\* C4: a document the last run accepted is accepted again by the next run,
\* and the file after that run is the file before it.
C4_Idempotent ==
    \A d \in Processed :
        (run > 1 /\ previous[d].st = "ok") =>
            report[d].st = "ok" /\ staging[d] = original[d]

\* C5: when the metadata declares a title (under title, else titel), the
\* normalized title is the text of the declared value without its leading
\* and trailing white space, and the body keeps all its lines.
C5_DeclaredTitleStripped ==
    \A d \in Accepted :
        HasDeclaredTitle(Input(d)) =>
            /\ Title(d) = Strip(PyStr(DeclaredTitle(Input(d).fm)))
            /\ Len(report[d].content) = Len(Input(d).content)

C5_PaddedTitleNormalized ==
    \E d \in Accepted :
        /\ HasDeclaredTitle(Input(d))
        /\ DeclaredTitle(Input(d).fm).t = "str"
        /\ DeclaredTitle(Input(d).fm).s # Strip(DeclaredTitle(Input(d).fm).s)
        /\ Title(d) = <<"A">>
        /\ Len(report[d].content) = 2

\* C5 as stated: the normalized title equals the declared title character
\* for character and no body line is removed.
C5_DeclaredTitleVerbatim ==
    \A d \in Accepted :
        (HasDeclaredTitle(Input(d)) /\ DeclaredTitle(Input(d).fm).t = "str") =>
            /\ Title(d) = DeclaredTitle(Input(d).fm).s
            /\ Len(report[d].content) = Len(Input(d).content)

\* the body of the file the run started on, after fix_duplicate_headings
Repaired(d) == fix_duplicate_headings(Input(d).content)

\* C6: when the metadata is absent or a mapping without a title and the
\* body, after the repair of duplicated markers, has a heading line, the
\* document is not refused for its title, the title is the text of the first
\* such line, and the written body is the other lines in their order, with
\* the white space at the start and the end of the whole body removed.
C6_FirstHeadingStripped ==
    \A d \in Processed :
        (NoDeclaredTitle(Input(d)) /\ Headings(Repaired(d)) # {}) =>
            /\ report[d].st \in {"ok", "TooManyConflicts"}
            /\ report[d].st = "ok" =>
                   TitleFromHeading(d, Repaired(d), SetMin(Headings(Repaired(d))))

C6_SecondHeadingKept ==
    \E d \in Accepted :
        /\ NoDeclaredTitle(Input(d))
        /\ Cardinality(Headings(Repaired(d))) = 2
        /\ Title(d) = <<"A">>
        /\ report[d].content = <<H2_B>>

\* C6 as stated: the title is the text of the first heading line of the
\* body (read after the repair of duplicated markers, which C10 puts before
\* title resolution), exactly that line is removed and every other line is
\* kept.
C6_FirstHeadingOnlyRemoved ==
    \A d \in Processed :
        (NoDeclaredTitle(Input(d)) /\ Headings(Repaired(d)) # {}) =>
            /\ report[d].st \in {"ok", "TooManyConflicts"}
            /\ report[d].st = "ok" =>
                   /\ Title(d) = TitleOfLine(Repaired(d)[SetMin(Headings(Repaired(d)))])
                   /\ report[d].content
                        = AsText(RemoveAt(Repaired(d), SetMin(Headings(Repaired(d)))))

\* the metadata yields a non-empty title
MetadataTitle(e) == HasDeclaredTitle(e) /\ Strip(PyStr(DeclaredTitle(e.fm))) # <<>>

\* C7: a document whose metadata and body both yield no non-empty title
\* fails with MissingTitle and its file is unchanged, and the run still
\* processes every document of the batch.
C7_MissingTitle ==
    /\ \A d \in Processed :
           (~MetadataTitle(Input(d)) /\ Headings(Repaired(d)) = {}) =>
               report[d].st = "MissingTitle" /\ staging[d] = original[d]
    /\ pc = "exit" => Processed = DOMAIN report

\* the text opens a metadata block and a later line closes it
Delimited(text) ==
    StartsWith(text[1], DASHES) /\ \E i \in 2..Len(text) : Strip(text[i]) = DASHES

\* what yaml.safe_load gives for the lines between the delimiters
BlockLoad(text) ==
    yaml_safe_load(AsText(SubSeq(text, 2,
        SetMin({i \in 2..Len(text) : Strip(text[i]) = DASHES}) - 1)))

NotAMapping(r) == r.st # "ok" \/ ~r.dict

\* C8: for a delimited metadata block that does not parse as a mapping,
\* extract returns a mapping and does not raise, and normalization goes on
\* to the title: the document is accepted or fails for its title or slug.
C8_MalformedIsNoError ==
    \A d \in Processed :
        (Delimited(original[d]) /\ NotAMapping(BlockLoad(original[d]))) =>
            /\ Input(d).dict /\ ~Input(d).raised
            /\ report[d].st \in {"ok", "MissingTitle", "TooManyConflicts"}

\* the text opens a metadata block that no later line closes
Unterminated(text) ==
    StartsWith(text[1], DASHES) /\ ~\E i \in 2..Len(text) : Strip(text[i]) = DASHES

\* C9: a document opening with --- and without a closing --- line has no
\* metadata and its whole text is the body: the title is the text of the
\* first heading line of the whole text, and without such a line the
\* document fails with MissingTitle.
C9_UnterminatedIsBody ==
    \A d \in Processed :
        Unterminated(original[d]) =>
            IF Headings(fix_duplicate_headings(original[d])) = {}
            THEN report[d].st = "MissingTitle"
            ELSE /\ report[d].st \in {"ok", "TooManyConflicts"}
                 /\ report[d].st = "ok" =>
                        TitleFromHeading(d, fix_duplicate_headings(original[d]),
                            SetMin(Headings(fix_duplicate_headings(original[d]))))

C9_BlockTitleIgnored ==
    \E d \in Accepted :
        /\ Unterminated(original[d])
        /\ original[d][2] = L_title_A
        /\ Title(d) = <<"B">>
        /\ report[d].content[1] = DASHES

\* the markers a line opens with, and what follows them
Markers(line) == LeadingCount(LStrip(line), "#")

AfterMarkers(line) == Drop(LStrip(line), Markers(line))

\* the line is N markers, white space, the same N markers again and text
IsDuplicated(line) ==
    /\ Markers(line) >= 1
    /\ AfterMarkers(line) # <<>>
    /\ IsSpace(AfterMarkers(line)[1])
    /\ StartsWith(LStrip(AfterMarkers(line)), Rep("#", Markers(line)))
    /\ Strip(Drop(LStrip(AfterMarkers(line)), Markers(line))) # <<>>

HeadingText(line) == Strip(Drop(LStrip(AfterMarkers(line)), Markers(line)))

Indentation(line) == SubSeq(line, 1, Len(line) - Len(LStrip(line)))

\* N markers, one space and the text, behind the indentation of the line
Deduplicated(line) ==
    IF IsDuplicated(line)
    THEN Indentation(line) \o Rep("#", Markers(line)) \o <<" ">> \o HeadingText(line)
    ELSE line

W_Hello_World == <<"H", "e", "l", "l", "o", " ", "W", "o", "r", "l", "d">>

\* C10: in the body kept under a declared title, every line with duplicated
\* markers is N markers, one space and its text behind its own indentation
\* and every other line is as it was; and the title derived from
\* "# # Hello World" is "Hello World".
C10_DedupeKeepsIndentation ==
    \A d \in Accepted :
        /\ HasDeclaredTitle(Input(d)) =>
               report[d].content
                 = [i \in 1..Len(Input(d).content) |-> Deduplicated(Input(d).content[i])]
        /\ original[d] = <<H1_hello>> => Title(d) = W_Hello_World

\* the text parse_date reads for the date field of the metadata
DateText(d) == PyStr(Get(Input(d).fm, K_date))

\* the date of the normalized metadata
NormalizedDate(d) == Get(report[d].fm, K_date).s

\* the three parts of x around its characters i and j
LayoutGroups(x, i, j) ==
    <<SubSeq(x, 1, i - 1), SubSeq(x, i + 1, j - 1), SubSeq(x, j + 1, Len(x))>>

IsDigitGroups(g) == \A k \in 1..3 : g[k] # <<>> /\ AllDigits(g[k])

\* year, month and day of three digit groups: the year is the group of four
\* digits, first or last, month and day have one or two digits
ReadGroups(g) ==
    IF Len(g[1]) = 4 /\ Len(g[2]) \in 1..2 /\ Len(g[3]) \in 1..2
    THEN {<<StrToInt(g[1]), StrToInt(g[2]), StrToInt(g[3])>>}
    ELSE IF Len(g[3]) = 4 /\ Len(g[1]) \in 1..2 /\ Len(g[2]) \in 1..2
    THEN {<<StrToInt(g[3]), StrToInt(g[1]), StrToInt(g[2])>>}
    ELSE {}

\* what x says when it is written as YYYY-MM-DD, YYYY/MM/DD, MM/DD/YYYY or
\* MM-DD-YYYY: no reading, or one <<year, month, day>>
Readings(x) ==
    UNION {IF x[p[1]] = x[p[2]] /\ IsDigitGroups(LayoutGroups(x, p[1], p[2]))
           THEN ReadGroups(LayoutGroups(x, p[1], p[2])) ELSE {} :
              p \in {q \in (1..Len(x)) \X (1..Len(x)) :
                        q[1] < q[2] /\ x[q[1]] \in {"-", "/"}}}

\* the possible days among the readings of x
ValidReadings(x) == {r \in Readings(x) : ValidDate(r[1], r[2], r[3])}

\* YYYY-MM-DD
Canonical(r) == Pad4(r[1]) \o <<"-">> \o Pad2(r[2]) \o <<"-">> \o Pad2(r[3])

\* C11: when the date field holds a possible calendar day written as
\* YYYY-MM-DD, YYYY/MM/DD, MM/DD/YYYY or MM-DD-YYYY, the normalized date is
\* that day as YYYY-MM-DD, month and day padded to two digits.
C11_LayoutsNormalized ==
    \A d \in Accepted :
        \A r \in ValidReadings(DateText(d)) : NormalizedDate(d) = Canonical(r)

\* a year-last date is accepted and rewritten year first
C11_YearLastRewritten ==
    \E d \in Accepted :
        /\ DateText(d) = <<"0", "8", "/", "1", "3", "/", "2", "0", "2", "5">>
        /\ NormalizedDate(d) = <<"2", "0", "2", "5", "-", "0", "8", "-", "1", "3">>

\* x has the form YYYY-MM-DD
IsCanonicalDate(x) ==
    /\ Len(x) = 10
    /\ x[5] = "-" /\ x[8] = "-"
    /\ \A i \in {1, 2, 3, 4, 6, 7, 9, 10} : IsDigit(x[i])

\* C12: no date value makes the normalization fail: a value that is no
\* possible day in one of the layouts gives the current date, and every date
\* written to the metadata has the ten characters YYYY-MM-DD.
C12_CanonicalOrCurrent ==
    \A d \in Accepted :
        /\ IsCanonicalDate(NormalizedDate(d))
        /\ ValidReadings(DateText(d)) = {} => NormalizedDate(d) = now

\* an impossible day falls back to the current date
C12_ImpossibleDayIsToday ==
    \E d \in Accepted :
        /\ DateText(d) = <<"1", "3", "/", "2", "9", "/", "2", "0", "2", "5">>
        /\ NormalizedDate(d) = now

\* the metadata of d was loaded as a mapping
IsMapping(e) == ~e.none /\ e.dict /\ ~e.raised

\* the value a field has in the metadata the document came with, None when absent
Given(d, key) == Get(Input(d).fm, key)

\* the value a field has in the normalized metadata
Normalized(d, key) == Get(report[d].fm, key)

\* str(v) without the white space around it
StrippedStr(v) == VStr(Strip(PyStr(v)))

\* the categories the claim gives for the value c
ExpectedCategories(c) ==
    IF c.t = "str" THEN <<StrippedStr(c)>>
    ELSE IF c.t = "list" /\ c.l # <<>> THEN <<StrippedStr(c.l[1])>>
    ELSE <<>>

\* C13: whatever the categories field holds, the document is not failed for
\* it and its normalized categories is a list of at most one string: the
\* string itself for a string, the first entry for a list, nothing for an
\* empty list, an absent field or any other value; dropping entries of a
\* longer list is recorded among the changes.
C13_AtMostOneCategory ==
    \A d \in Processed :
        (IsMapping(Input(d)) /\ HasDeclaredTitle(Input(d))) =>
            /\ report[d].st = "ok"
            /\ Normalized(d, K_categories).t = "list"
            /\ Normalized(d, K_categories).l = ExpectedCategories(Given(d, K_categories))
            /\ Len(Normalized(d, K_categories).l) <= 1
            /\ (Given(d, K_categories).t = "list" /\ Len(Given(d, K_categories).l) > 1)
                  => "multiple" \in report[d].changes

\* a list of three categories is cut to its first and the cut is recorded
C13_ThreeCutToOne ==
    \E d \in Accepted :
        /\ Len(Given(d, K_categories).l) = 3
        /\ Normalized(d, K_categories).l = <<VStr(<<"a">>)>>
        /\ "multiple" \in report[d].changes

BoolKeys == {K_draft, K_toc, K_code_line_numbers}

\* the boolean the claim gives for the value v of draft, toc or
\* code-line-numbers: a string is true when it is true, yes or 1 in any
\* letter case, any other value is bool(v), None when the field is absent
ExpectedBool(v) ==
    IF v.t = "str" THEN Lower(v.s) \in {W_true, W_yes, <<"1">>} ELSE Truthy(v)

\* C14: draft, toc and code-line-numbers of the normalized metadata are
\* booleans: true for the strings true, yes and 1 in any letter case, false
\* for any other string and for an absent field, bool() of any other value;
\* each is written as the lowercase token true or false.
C14_BooleansNormalized ==
    \A d \in Accepted : \A k \in BoolKeys :
        IsMapping(Input(d)) =>
            /\ Normalized(d, k) = VBool(ExpectedBool(Given(d, k)))
            /\ \E i \in 1..Len(staging[d]) :
                  staging[d][i] = Field(k, LowerBool(ExpectedBool(Given(d, k))))

\* C15: in the normalized metadata toc-depth is present only if toc is true,
\* and when present it is an integer: the given depth as int() reads it, 3
\* when no depth was given or int() fails on it.
C15_DepthOnlyWithToc ==
    \A d \in Accepted :
        IsMapping(Input(d)) =>
            /\ K_toc_depth \in DOMAIN report[d].fm => Truthy(Normalized(d, K_toc))
            /\ K_toc_depth \in DOMAIN report[d].fm =>
                  /\ Normalized(d, K_toc_depth).t = "int"
                  /\ (K_toc_depth \notin DOMAIN Input(d).fm \/ ~PyInt(Given(d, K_toc_depth)).ok)
                        => Normalized(d, K_toc_depth).n = 3

\* x is a slug: lowercase letters, digits and hyphens, at least one
\* character, no hyphen first or last, no two hyphens in a row
IsSlug(x) ==
    /\ x # <<>>
    /\ \A i \in 1..Len(x) : IsLowerAlpha(x[i]) \/ IsDigit(x[i]) \/ x[i] = "-"
    /\ x[1] # "-" /\ x[Len(x)] # "-"
    /\ \A i \in 1..(Len(x) - 1) : ~(x[i] = "-" /\ x[i + 1] = "-")

\* the text the short-path is made from: the short-path field when it holds
\* more than white space, else the normalized title
SlugSource(d) ==
    IF Truthy(Given(d, K_short_path)) /\ Strip(PyStr(Given(d, K_short_path))) # <<>>
    THEN PyStr(Given(d, K_short_path))
    ELSE Title(d)

\* nothing of x is left once spaces, hyphens and invalid characters are gone
SanitizesToNothing(x) == \A i \in 1..Len(x) : x[i] \in {" ", "-"} \cup InvalidChars

\* C16: every short-path written, whether made from the title or from a
\* short-path field, is a non-empty string of lowercase letters, digits and
\* hyphens without a leading, trailing or doubled hyphen, and it is
\* "untitled" when nothing of its source is left after sanitizing.
C16_ShortPathIsSlug ==
    \A d \in Accepted :
        IsMapping(Input(d)) =>
            /\ IsSlug(FinalShortPath(d))
            /\ SanitizesToNothing(SlugSource(d)) => FinalShortPath(d) = UNTITLED

\* the line that closes the metadata block of a written file
Closing(text) == SetMin({i \in 2..Len(text) : text[i] = DASHES})

\* the lines of the block that start a field: all but the items of a list
FieldLineIndexes(text) ==
    {i \in 2..(Closing(text) - 1) : ~StartsWith(text[i], <<" ", " ", "-", " ">>)}

\* the key a field line starts with
KeyOfLine(line) == SubSeq(line, 1, SetMin({i \in 1..Len(line) : line[i] = ":"}) - 1)

\* the field lines of the block that carry the key
LinesOf(text, key) == {i \in FieldLineIndexes(text) : KeyOfLine(text[i]) = key}

\* the preferred order of the fields
PreferredOrder ==
    <<K_title, K_author, K_date, K_description, K_short_path, K_draft, K_toc,
      K_toc_depth, K_code_line_numbers, K_categories>>

\* the place of a key in the preferred order, one past its end for any other key
Rank(key) ==
    SetMin({i \in 1..Len(PreferredOrder) : PreferredOrder[i] = key}
           \cup {Len(PreferredOrder) + 1})

\* C17: the written file is the opening delimiter, one entry for every field
\* of the normalized metadata and for nothing else, the fields title, author,
\* date, description, short-path, draft, toc, toc-depth, code-line-numbers,
\* categories in that order before all remaining fields, the closing
\* delimiter, then the body.
C17_FieldsInOrderOnce ==
    \A d \in Accepted :
        /\ staging[d][1] = DASHES
        /\ \A k \in DOMAIN report[d].fm : Cardinality(LinesOf(staging[d], k)) = 1
        /\ \A i \in FieldLineIndexes(staging[d]) :
              KeyOfLine(staging[d][i]) \in DOMAIN report[d].fm
        /\ \A i, j \in FieldLineIndexes(staging[d]) :
              i < j =>
                 /\ Rank(KeyOfLine(staging[d][i])) <= Rank(KeyOfLine(staging[d][j]))
                 /\ Rank(KeyOfLine(staging[d][i])) = Rank(KeyOfLine(staging[d][j]))
                       => Rank(KeyOfLine(staging[d][i])) > Len(PreferredOrder)
        /\ SubSeq(staging[d], Closing(staging[d]) + 1, Len(staging[d])) = report[d].content

\* a block that came as image, categories, subtitle, toc, date is written in
\* the preferred order with subtitle and image last
C17_Reordered ==
    \E d \in Accepted :
        /\ original[d][3] = L_image
        /\ original[d][4] = L_cats
        /\ \E i \in LinesOf(staging[d], K_categories), j \in LinesOf(staging[d], K_toc_depth),
              k \in LinesOf(staging[d], <<"i", "m", "a", "g", "e">>) :
                 j < i /\ i < k /\ staging[d][k + 1] = DASHES

\* C18: whatever the author field of a document holds, and also without
\* one, the author of the normalized metadata is "Nikhil Agarwal", and that
\* is the author the file is written with.
C18_AuthorIsSiteOwner ==
    \A d \in Accepted :
        /\ Normalized(d, K_author) = VStr(AUTHOR)
        /\ LinesOf(staging[d], K_author) # {}
        /\ \A i \in LinesOf(staging[d], K_author) : staging[d][i] = Field(K_author, AUTHOR)

\* another author is replaced
C18_OtherAuthorReplaced ==
    \E d \in Accepted :
        /\ Given(d, K_author) = VStr(<<"B", "o", "b">>)
        /\ Normalized(d, K_author) = VStr(AUTHOR)

\* the ways a document can fail that the specification calls fatal
FatalKinds == {"MissingTitle", "TooManyConflicts"}

\* C19: when a batch run has ended, its exit status is non-zero only if a
\* document of the batch failed with MissingTitle or TooManyConflicts; a
\* batch without such a document ends with status zero.
C19_NonZeroOnlyOnFatal ==
    (pc = "exit" /\ exit_code # 0) => \E d \in DOMAIN report : report[d].st \in FatalKinds

\* the step scripts in the order of their numbers
FiveSteps ==
    <<"01-sanitize-filenames.py", "02-standardize-yaml.py", "03-convert-highlights.py",
      "04-fix-image-paths.py", "05-validate-content.py">>

\* C20: the orchestrator starts the step scripts 01 to 05 in that order, each
\* only after the one before it has exited with status 0; once a step exits
\* with another status no further step is started and the orchestrator has
\* exited with status 1; promote_to_posts is called only after all five
\* steps exited with 0 and only with --promote or --dry-run.
C20_StepsInOrder ==
    /\ Len(orchestrator.started) <= Len(FiveSteps)
    /\ \A i \in 1..Len(orchestrator.started) : orchestrator.started[i] = FiveSteps[i]
    /\ Len(orchestrator.returncodes) <= Len(orchestrator.started)
    /\ \A i \in 2..Len(orchestrator.started) :
          /\ Len(orchestrator.returncodes) >= i - 1
          /\ orchestrator.returncodes[i - 1] = 0
    /\ \A i \in 1..Len(orchestrator.returncodes) :
          orchestrator.returncodes[i] # 0 =>
             /\ i = Len(orchestrator.started)
             /\ orchestrator.pc = "exit"
             /\ orchestrator.status = 1
    /\ orchestrator.promoted =>
          /\ orchestrator.returncodes = <<0, 0, 0, 0, 0>>
          /\ orchestrator.args.promote \/ orchestrator.args.dry_run

\* the second step fails on a document without a title: the orchestrator has
\* exited with 1 and the third step was not started
C20_StoppedAtSecondStep ==
    /\ orchestrator.started = <<"01-sanitize-filenames.py", "02-standardize-yaml.py">>
    /\ orchestrator.returncodes = <<0, 1>>
    /\ orchestrator.pc = "exit"
    /\ orchestrator.status = 1
    /\ \E d \in DOMAIN report : report[d].st = "MissingTitle"

\* C21: when a run with --promote ends, every staged post that was not
\* copied into posts/ (overwrite declined, removal of the old destination
\* failed, copy failed) still has its source in ingest-external-md/ and its
\* directory in processed-staging/
C21_UnpromotedKept ==
    (orchestrator.pc = "exit" /\ orchestrator.args.promote /\ orchestrator.promoted) =>
        \A m \in DOMAIN orchestrator.path_mapping :
            (/\ orchestrator.path_mapping[m] \in DOMAIN orchestrator.outcome
             /\ ~orchestrator.outcome[orchestrator.path_mapping[m]].copied)
            => (/\ m \in orchestrator.ingest
                /\ orchestrator.path_mapping[m] \in DOMAIN staging)

\* C24: clear_staging_directory, cleanup_staging and cleanup_ingest_directory
\* leave a README.md that exists in the directory they work on with the
\* content it had, also when they fail
C24_ReadmePreserved ==
    [][/\ (orchestrator.pc \in {"clear", "cleanup"}
           /\ orchestrator.staging_readme # "none")
          => orchestrator'.staging_readme = orchestrator.staging_readme
       /\ (orchestrator.pc = "cleanup_ingest" /\ orchestrator.ingest_readme # "none")
          => orchestrator'.ingest_readme = orchestrator.ingest_readme]_vars

\* C25: with --dry-run, with or without --promote, no step of the
\* orchestrator makes or changes posts/, no destination is removed, no
\* overwrite question is asked, and once the pipeline steps are through
\* neither processed-staging/ nor ingest-external-md/ loses anything
C25_DryRunShowsOnly ==
    [][orchestrator.args.dry_run =>
          /\ posts' = posts
          /\ orchestrator'.posts_dir = orchestrator.posts_dir
          /\ \A d \in DOMAIN orchestrator'.outcome :
                /\ orchestrator'.outcome[d].response = ""
                /\ ~orchestrator'.outcome[d].removed
                /\ ~orchestrator'.outcome[d].copied
          /\ orchestrator.pc \notin {"cleanup", "cleanup_ingest"}
          /\ orchestrator.pc = "completed" =>
                /\ staging' = staging
                /\ orchestrator'.ingest = orchestrator.ingest
                /\ orchestrator'.staging_readme = orchestrator.staging_readme
                /\ orchestrator'.ingest_readme = orchestrator.ingest_readme]_vars

\* a run with --dry-run and --promote has ended after showing a post whose
\* destination exists in posts/, with both directories as the steps left them
C25_DryRunWithExistingDestination ==
    /\ orchestrator.pc = "exit"
    /\ orchestrator.status = 0
    /\ orchestrator.args.dry_run
    /\ orchestrator.args.promote
    /\ orchestrator.promoted
    /\ D_x \in DOMAIN orchestrator.outcome
    /\ D_x \in posts
    /\ D_x \in DOMAIN staging
    /\ M_x \in orchestrator.ingest

\* the colour emoji Bear supports and the colour code of each
ColourOf ==
    [e \in {"U+1F7E2", "U+1F534", "U+1F535", "U+1F7E1", "U+1F7E3"} |->
        CASE e = "U+1F7E2" -> <<"#", "9", "0", "E", "E", "9", "0">>
          [] e = "U+1F534" -> <<"#", "f", "f", "c", "c", "c", "b">>
          [] e = "U+1F535" -> <<"#", "a", "d", "d", "8", "e", "6">>
          [] e = "U+1F7E1" -> <<"#", "f", "f", "f", "f", "e", "0">>
          [] e = "U+1F7E3" -> <<"#", "d", "d", "a", "0", "d", "d">>]

\* the Bear highlights ==<emoji>text== of a content, each as <<emoji, text>>
BearHighlights(s) ==
    {<<s[p[1] + 2], SubSeq(s, p[1] + 3, p[2] - 1)>> :
        p \in {q \in (1..Len(s)) \X (1..Len(s)) :
                 /\ q[2] > q[1] + 3
                 /\ q[2] + 1 <= Len(s)
                 /\ s[q[1]] = "=" /\ s[q[1] + 1] = "="
                 /\ s[q[1] + 2] \in DOMAIN ColourOf
                 /\ s[q[2]] = "=" /\ s[q[2] + 1] = "="
                 /\ \A k \in (q[1] + 3)..(q[2] - 1) : s[k] # "="}}

\* <mark style="background-color: <code>">text</mark> for a highlight
MarkOf(h) ==
    <<"<", "m", "a", "r", "k", " ", "s", "t", "y", "l", "e", "=", "\"", "b", "a", "c", "k",
      "g", "r", "o", "u", "n", "d", "-", "c", "o", "l", "o", "r", ":", " ">>
    \o ColourOf[h[1]] \o <<"\"", ">">> \o h[2] \o <<"<", "/", "m", "a", "r", "k", ">">>

HighlightsDone(input, output) ==
    /\ \A h \in BearHighlights(input) : Occurs(MarkOf(h), output)
    /\ BearHighlights(output) = {}

\* C22: for every Bear highlight of a supported colour in the content of a
\* post, what process_markdown_content has made of the content holds the
\* mark element with the colour code of the emoji around the text, and no
\* Bear highlight is left in it
C22_HighlightsBecomeMarks ==
    \A d \in DOMAIN report :
        report[d].st = "ok" => HighlightsDone(JoinLines(original[d]), JoinLines(staging[d]))

\* the names step 01 may give a directory: the name itself (i = 0) or the
\* name with the suffix -01 .. -99
SuffixedName(name, i) == IF i = 0 THEN name ELSE name \o <<"-">> \o Fmt02(i)

\* dir is the first of name, name-01, .. name-99 that is not in existing
IsFirstFree(dir, name, existing) ==
    \E i \in 0..99 :
        /\ dir = SuffixedName(name, i)
        /\ dir \notin existing
        /\ \A j \in 0..(i - 1) : SuffixedName(name, j) \in existing

\* none of name, name-01, .. name-99 is free
NoneFree(name, existing) == \A i \in 0..99 : SuffixedName(name, i) \in existing

\* C23: step 01 gives every markdown file of a batch its own post directory,
\* the first free one of <name>, <name>-01 .. <name>-99, and fails when none
\* is free; no two files share a directory, no index.qmd that existed is
\* overwritten, and as many directories are made as files are processed
C23_OwnDirectoryPerFile ==
    /\ \A f \in DOMAIN report :
          /\ \E padded \in BOOLEAN :
                IsFirstFree(report[f].dir,
                            create_post_directory_name(f, original[f], NowPrefix(now), padded),
                            report[f].existing)
          /\ report[f].dir \notin DOMAIN previous
          /\ staging[report[f].dir] = original[f]
          /\ \A g \in DOMAIN report : g # f => report[g].dir # report[f].dir
    /\ \A d \in DOMAIN previous : d \in DOMAIN staging /\ staging[d] = previous[d]
    /\ Cardinality(DOMAIN staging \ DOMAIN previous) = Cardinality(DOMAIN report)
    /\ (pc = "exit" /\ exit_code = 0) => DOMAIN report = DOMAIN original
    /\ (pc = "exit" /\ exit_code # 0) =>
          /\ todo # <<>>
          /\ \E padded \in BOOLEAN :
                NoneFree(create_post_directory_name(Head(todo), original[Head(todo)],
                                                    NowPrefix(now), padded),
                         DOMAIN staging)

\* two files of one batch with the same target name, which exists with the
\* suffixes -01 and -03: one has been staged as -02, the other as -04
C23_HoleThenNextSuffix ==
    /\ pc = "exit"
    /\ exit_code = 0
    /\ \E f \in DOMAIN report, g \in DOMAIN report :
          /\ report[f].dir = <<"2", "0", "2", "6", "1", "1", "0", "4", "_", "m", "y", "-",
                               "p", "o", "s", "t", "-", "0", "2">>
          /\ report[g].dir = <<"2", "0", "2", "6", "1", "1", "0", "4", "_", "m", "y", "-",
                               "p", "o", "s", "t", "-", "0", "4">>

\* what the validator finds for the post directory d of processed-staging
Validity(d) == validate_single_post(JoinLines(staging[d]))

\* the post directories of processed-staging are all valid
AllPostsValid == \A d \in DOMAIN staging : Validity(d).st = "validated" /\ Validity(d).valid

\* two post directories whose metadata hold the same short-path
SharedShortPath ==
    \E a \in DOMAIN staging, b \in DOMAIN staging :
        /\ a # b
        /\ K_short_path \in DOMAIN Validity(a).yaml_data
        /\ K_short_path \in DOMAIN Validity(b).yaml_data
        /\ Validity(a).yaml_data[K_short_path] = Validity(b).yaml_data[K_short_path]

\* C26 (as stated): the validator exits with status zero if and only if
\* every post directory in processed-staging is valid and no two posts share
\* a short-path; an invalid post or a duplicated short-path gives status 1.
C26_ZeroIffValidAndDistinct ==
    pc = "exit" => (exit_code = 0 <=> (AllPostsValid /\ ~SharedShortPath))

\* C26 (amended): when processed-staging exists, the validator exits with
\* status zero if and only if every post directory in it is valid and no two
\* posts share a short-path, and with status 1 otherwise; without
\* processed-staging it exits with status 1.
C26_ZeroIffValidAndDistinctInStaging ==
    pc = "exit" =>
        /\ exit_code \in {0, 1}
        /\ orchestrator.staging_dir => (exit_code = 0 <=> (AllPostsValid /\ ~SharedShortPath))
        /\ ~orchestrator.staging_dir => exit_code = 1

\* C26 witness: two valid posts with the same short-path have made the
\* validator exit with status 1
C26_DuplicateShortPathFails ==
    /\ pc = "exit"
    /\ orchestrator.staging_dir
    /\ Cardinality(DOMAIN staging) = 2
    /\ AllPostsValid
    /\ SharedShortPath
    /\ exit_code = 1

\* what the frontmatter check of the validator finds in the file written for
\* the accepted document d
FrontmatterCheck(d) == validate_yaml_frontmatter(JoinLines(staging[d]))

\* C27: every document that the normalizer reports as updated passes the
\* frontmatter check of the validator: validate_yaml_frontmatter raises
\* nothing and returns no error, so the title is a non-empty string, the
\* date matches YYYY-MM-DD, categories is a list, short-path matches
\* ^[a-z0-9-]+$ and draft, toc and code-line-numbers are booleans.
C27_UpdatedPassesFrontmatterCheck ==
    \A d \in Accepted : ~FrontmatterCheck(d).raised /\ FrontmatterCheck(d).errors = {}

\* C28: for every step 01 to 05, a step that reports an error for at least
\* one post exits non-zero, so the orchestrator starts no later step and
\* promotes nothing; in particular errors that step 04 reports stop the
\* pipeline at step 04.
C28_ReportedErrorStopsPipeline ==
    \A k \in 1..Len(orchestrator.reported) :
        orchestrator.reported[k] =>
            /\ orchestrator.returncodes[k] # 0
            /\ Len(orchestrator.started) = k
            /\ ~orchestrator.promoted

====
